---- MODULE Spec2Model ----
(***************************************************************************)
(* BookChat: message storage and identity subsystem.                       *)
(*                                                                         *)
(* Three specifications share this module:                                 *)
(*   SpecArchive  SQLiteStorage.save_message + MessageArchiver             *)
(*   SpecMerge    sync_forks.copy_messages_to_main over cloned forks       *)
(*   Spec         GitManager / GitStorage / FileStorage message store and  *)
(*                KeyManager identities                                    *)
(* Each specification leaves the variables of the other two at their       *)
(* initial values.                                                         *)
(***************************************************************************)
EXTENDS Integers, Sequences, FiniteSets, TLC

VARIABLES
    \* ---- SQLite storage and archiver ----
    db,                       \* rows of table messages: set of [id, ts]
    archives,                 \* archive_dir: archive name -> set of rows in messages.json
    last_archive_time,        \* MessageArchiver.last_archive_time
    total_archives_created,   \* MessageArchiver.total_archives_created
    total_messages_archived,  \* MessageArchiver.total_messages_archived
    total_bytes_archived,     \* MessageArchiver.total_bytes_archived
    nextId,                   \* number of uuid4 ids handed out so far
    saved,                    \* history: every row an insert has committed
    archResult,               \* history: what the last call returned
    archivedAt,               \* history: reference time of the last archive call,
                              \* NoValue once an insert has committed after it
    \* ---- fork merge (sync_forks.py) ----
    mainDir,                  \* messages/*.json: file name -> stored message
    forks,                    \* cloned_repos/<repo>/messages/*.json: repo -> file -> content
    mergeStats,               \* the counters copy_messages_to_main logs when it ends
    mergeFresh,               \* history: TRUE when the last step was a merge, so that
                              \* neither a fork nor messages/ has changed since
    \* ---- message store and identities ----
    backend,                  \* which save_message this deployment calls
    use_github,               \* GitManager.use_github
    git_fails,                \* the git command that exits non-zero when run, or "none"
    clock,                    \* wall clock, in seconds
    messages_dir,             \* messages/*.txt: file name -> file content
    private_keys,             \* keys/<name>.pem: name -> key
    public_keys,              \* identity/public_keys/<name>.pub: name -> key
    keys_generated,           \* number of key pairs generated so far
    last_pull_time,           \* GitManager.last_pull_time
    staged,                   \* git index: path -> blob
    committed,                \* HEAD of main: path -> blob
    pushed,                   \* origin/main: path -> blob
    calls,                    \* number of save, rename and pull calls made so far
    storeResult,              \* history: the last call, its arguments and outcome
    \* ---- listing of messages/ (get_messages) ----
    listed_dir,               \* messages/*.txt: file name -> [st_mtime, file]
    writes,                   \* number of files written so far, the clock of st_mtime
    listResult,               \* history: the last get_messages call and what it returned
    \* ---- save_message calls running at the same time ----
    conc_backend,             \* which save_message the calls run
    pc,                       \* author -> where the author's call is
    conc_dir,                 \* messages/*.txt: file name -> file content
    index_lock,               \* .git/index.lock: the call whose git command holds it
    conc_staged,              \* git index: paths added
    conc_committed,           \* HEAD: paths committed
    conc_returned,            \* author -> what the call returned, NoValue while it runs
    \* ---- pulls from origin and from the forks ----
    gm_use_github,            \* GitManager.use_github of the pulling deployment
    now,                      \* time.time(), in seconds
    gm_last_pull_time,        \* GitManager.last_pull_time
    origin_main,              \* number of commits of main on the remote
    tracking_main,            \* origin/main as last fetched
    local_main,               \* number of commits of origin that the local main has
    cloned_repos,             \* cloned_repos/: the fork directories that exist
    last_contact,             \* history: when a call last ran a git command on a remote
    pullResult,               \* history: the last call and what it did
    \* ---- an archive call taken statement by statement ----
    arch_pc,                  \* where archive_messages is: idle, selected or written
    arch_messages,            \* its local messages, the rows the SELECT returned
    arch_reference,           \* its argument reference_time
    arch_bundles,             \* history: the archive calls that wrote a bundle
    arch_calls,               \* history: the archive calls that selected messages
    \* ---- threads of one process calling pull_from_github at the same time ----
    pull_pc,                  \* thread -> the statement of pull_from_github it is at
    pull_time,                \* thread -> its local current_time
    pull_returned,            \* thread -> what its call returned, NoValue while it runs
    \* ---- files of messages/ read back by GitManager.read_message ----
    tree,                     \* messages/: file stem -> [format, date, committed]
    readResult,               \* history: the last read_message call and its createdAt
    \* ---- the ports of the host and find_available_port ----
    bound_ports,              \* the ports other sockets of the host are bound to
    portResult,               \* history: the last find_available_port call and its outcome
    \* ---- rename requests handled by several threads at the same time ----
    key_private,              \* the user names that have a private key file <name>.pem
    key_public,               \* the user names that have a public key file <name>.pub
    ren_pc,                   \* thread -> the statement of handle_username_change it is at
    ren_old,                  \* thread -> its argument old_username
    ren_new,                  \* thread -> its argument new_username
    ren_returned,             \* thread -> the success flag its call returned, None before
    \* ---- POST /messages requests handled by several threads at the same time ----
    post_key_manager,         \* the storage's key manager: with or without has_key_pair
    post_files,               \* messages/*.txt, oldest first by the time of the last write
    post_pc,                  \* request -> the statement of handle_message_post it is at
    git_ops_pc,               \* request -> its background thread git_ops: none, started or finished
    post_request,             \* request -> its author (cookie) and content (body)
    post_saved,               \* history: request -> the file its save_message wrote, None before
    latest_message,           \* request -> the file its git_ops staged and committed, None before
    new_message               \* request -> the message of its response, None before

archVars == <<db, archives, last_archive_time, total_archives_created,
              total_messages_archived, total_bytes_archived, nextId,
              saved, archResult, archivedAt>>

mergeVars == <<mainDir, forks, mergeStats, mergeFresh>>

storeVars == <<backend, use_github, git_fails, clock, messages_dir, private_keys, public_keys,
               keys_generated, last_pull_time, staged, committed, pushed,
               calls, storeResult>>

listVars == <<listed_dir, writes, listResult>>

concVars == <<conc_backend, pc, conc_dir, index_lock, conc_staged, conc_committed,
              conc_returned>>

pullVars == <<gm_use_github, now, gm_last_pull_time, origin_main, tracking_main, local_main,
              cloned_repos, last_contact, pullResult>>

stepVars == <<arch_pc, arch_messages, arch_reference, arch_bundles, arch_calls>>

flightVars == <<pull_pc, pull_time, pull_returned>>

readVars == <<tree, readResult>>

portVars == <<bound_ports, portResult>>

keyVars == <<key_private, key_public, ren_pc, ren_old, ren_new, ren_returned>>

postVars == <<post_key_manager, post_files, post_pc, git_ops_pc, post_request, post_saved,
              latest_message, new_message>>

vars == <<archVars, mergeVars, storeVars, listVars, concVars, pullVars,
         stepVars, flightVars, readVars, portVars, keyVars, postVars>>


\* None is the empty sequence, a value v that is present is <<v>>
NoValue == << >>
Some(v) == <<v>>

\* the archiver's variables before any call, as ArchiveInit leaves them
ArchiveIdle ==
    /\ db = {}
    /\ archives = << >>
    /\ last_archive_time = NoValue
    /\ total_archives_created = 0
    /\ total_messages_archived = 0
    /\ total_bytes_archived = 0
    /\ nextId = 0
    /\ saved = {}
    /\ archResult = [call |-> "init", ok |-> TRUE, path |-> NoValue]
    /\ archivedAt = NoValue

\* the fork-merge variables before sync_forks has run
MergeIdle ==
    /\ mainDir = << >>
    /\ forks = << >>
    /\ mergeStats = [total_messages |-> 0, duplicate_count |-> 0, copied_count |-> 0]
    /\ mergeFresh = FALSE

\* the store's variables when the store is not exercised: a GitManager
\* constructed without GitHub synchronisation.  KeyManager.__init__ generates
\* the pair local.pem / local.pub (key 0) and GitManager.__init__ copies
\* local.pub to anonymous.pub
StoreIdle ==
    /\ backend = "GitManager"
    /\ use_github = FALSE
    /\ git_fails = "none"
    /\ clock = 0
    /\ messages_dir = << >>
    /\ private_keys = [n \in {"local"} |-> 0]
    /\ public_keys = [n \in {"local", "anonymous"} |-> 0]
    /\ keys_generated = 0
    /\ last_pull_time = NoValue
    /\ staged = << >>
    /\ committed = << >>
    /\ pushed = << >>
    /\ calls = 0
    /\ storeResult = [call |-> "init"]

ListIdle ==
    /\ listed_dir = << >>
    /\ writes = 0
    /\ listResult = [call |-> "init"]

ConcIdle ==
    /\ conc_backend = "none"
    /\ pc = << >>
    /\ conc_dir = << >>
    /\ index_lock = NoValue
    /\ conc_staged = {}
    /\ conc_committed = {}
    /\ conc_returned = << >>

PullIdle ==
    /\ gm_use_github = FALSE
    /\ now = 0
    /\ gm_last_pull_time = 0
    /\ origin_main = 0
    /\ tracking_main = 0
    /\ local_main = 0
    /\ cloned_repos = {}
    /\ last_contact = NoValue
    /\ pullResult = [call |-> "init"]

\* no archive call is under way
StepIdle ==
    /\ arch_pc = "idle"
    /\ arch_messages = {}
    /\ arch_reference = 0
    /\ arch_bundles = 0
    /\ arch_calls = 0

\* no thread is in pull_from_github
FlightIdle ==
    /\ pull_pc = << >>
    /\ pull_time = << >>
    /\ pull_returned = << >>

\* no file has been written for reading
ReadIdle ==
    /\ tree = << >>
    /\ readResult = [call |-> "init"]

\* find_available_port has not been called
PortIdle ==
    /\ bound_ports = {}
    /\ portResult = [call |-> "init"]

\* no rename request is being handled
KeyIdle ==
    /\ key_private = {}
    /\ key_public = {"anonymous"}
    /\ ren_pc = << >>
    /\ ren_old = << >>
    /\ ren_new = << >>
    /\ ren_returned = << >>

\* no POST /messages request is being handled
PostIdle ==
    /\ post_key_manager = "KeyManager"
    /\ post_files = << >>
    /\ post_pc = << >>
    /\ git_ops_pc = << >>
    /\ post_request = << >>
    /\ post_saved = << >>
    /\ latest_message = << >>
    /\ new_message = << >>

(***************************************************************************)
(* Time.  A timestamp is a number of ticks; a second has TicksPerSecond    *)
(* ticks and a day SecondsPerDay seconds (both scaled down).  The          *)
(* timestamps tried are the first and last tick of the first and last      *)
(* second of each day.                                                     *)
(***************************************************************************)
TicksPerSecond == 2
SecondsPerDay == 2
MaxDay == 1
MaxMessages == 3
MaxArchiveCalls == 3

days_threshold == 30

DayTicks == SecondsPerDay * TicksPerSecond
TimeStamps ==
    {d * DayTicks + s * TicksPerSecond + k :
        d \in 0 .. MaxDay, s \in {0, SecondsPerDay - 1}, k \in {0, TicksPerSecond - 1}}
ReferenceTimes == {days_threshold * DayTicks + t : t \in TimeStamps \cup {(MaxDay + 1) * DayTicks}}

\* strftime('%Y%m%d'): the calendar day of a timestamp
DateOf(ts) == ts \div DayTicks

\* SQLite datetime(x): the timestamp truncated to whole seconds
sql_datetime(ts) == ts \div TicksPerSecond

\* reference_time - timedelta(days=self.days_threshold)
threshold_date(reference_time) == reference_time - days_threshold * DayTicks

\* SELECT * FROM messages WHERE datetime(timestamp) < datetime(?)
get_messages_to_archive(rows, reference_time) ==
    {r \in rows : sql_datetime(r.ts) < sql_datetime(threshold_date(reference_time))}

\* mutant: the DELETE uses a threshold one second earlier than the SELECT
rows_to_delete_early(rows, reference_time) ==
    {r \in rows : sql_datetime(r.ts) + 1 < sql_datetime(threshold_date(reference_time))}

\* DELETE FROM messages WHERE datetime(timestamp) < datetime(?)
rows_to_delete(rows, reference_time) ==
    {r \in rows : sql_datetime(r.ts) < sql_datetime(threshold_date(reference_time))}

MinTs(rows) == CHOOSE t \in {r.ts : r \in rows} : \A r \in rows : t <= r.ts
MaxTs(rows) == CHOOSE t \in {r.ts : r \in rows} : \A r \in rows : t >= r.ts

\* chat_<first date>_<last date>.zip of the selection ordered by timestamp
archive_name(messages) == <<DateOf(MinTs(messages)), DateOf(MaxTs(messages))>>

\* archive_path.stat().st_size: grows with the number of bundled messages
archive_size(messages) == 1 + Cardinality(messages)

\* zipfile.ZipFile(archive_path, 'w'): the file of that name is created or replaced
write_archive(dir, name, messages) ==
    [n \in (DOMAIN dir) \cup {name} |-> IF n = name THEN messages ELSE dir[n]]

ArchiveInit ==
    /\ ArchiveIdle
    /\ MergeIdle
    /\ StoreIdle
    /\ ListIdle
    /\ ConcIdle
    /\ PullIdle
    /\ StepIdle
    /\ FlightIdle
    /\ ReadIdle
    /\ PortIdle
    /\ KeyIdle
    /\ PostIdle

\* SQLiteStorage.save_message(user, content, timestamp): insert under a fresh uuid4
SQLiteSaveMessage(ts) ==
    /\ nextId < MaxMessages
    /\ LET row == [id |-> nextId, ts |-> ts]
       IN /\ db' = db \cup {row}
          /\ saved' = saved \cup {row}
    /\ nextId' = nextId + 1
    /\ archResult' = [call |-> "save", ok |-> TRUE, path |-> NoValue]
    /\ archivedAt' = NoValue
    /\ UNCHANGED <<archives, last_archive_time, total_archives_created,
                   total_messages_archived, total_bytes_archived>>
    /\ UNCHANGED <<mergeVars, storeVars, listVars, concVars, pullVars, stepVars,
                   flightVars, readVars, portVars, keyVars, postVars>>

\* SQLiteStorage.save_message when the insert raises: returns False, no row
SQLiteSaveMessageFails ==
    /\ archResult' = [call |-> "save", ok |-> FALSE, path |-> NoValue]
    /\ UNCHANGED <<db, archives, last_archive_time, total_archives_created,
                   total_messages_archived, total_bytes_archived, nextId, saved,
                   archivedAt>>
    /\ UNCHANGED <<mergeVars, storeVars, listVars, concVars, pullVars, stepVars,
                   flightVars, readVars, portVars, keyVars, postVars>>

\* MessageArchiver.archive_messages(reference_time); datetime.now() of the
\* n-th bundle is represented by n (the clock only moves forward)
ArchiveMessages(reference_time) ==
    /\ total_archives_created < MaxArchiveCalls
    /\ LET messages == get_messages_to_archive(db, reference_time)
       IN IF messages = {}
          THEN /\ archResult' = [call |-> "archive", ok |-> TRUE, path |-> NoValue]
               /\ UNCHANGED <<db, archives, last_archive_time, total_archives_created,
                              total_messages_archived, total_bytes_archived>>
          ELSE /\ archives' = write_archive(archives, archive_name(messages), messages)
               /\ last_archive_time' = Some(total_archives_created + 1)
               /\ total_archives_created' = total_archives_created + 1
               /\ total_messages_archived' = total_messages_archived + Cardinality(messages)
               /\ total_bytes_archived' = total_bytes_archived + archive_size(messages)
               /\ db' = db \ rows_to_delete(db, reference_time)
               /\ archResult' = [call |-> "archive", ok |-> TRUE,
                                 path |-> Some(archive_name(messages))]
    /\ archivedAt' = Some(reference_time)
    /\ UNCHANGED <<nextId, saved>>
    /\ UNCHANGED <<mergeVars, storeVars, listVars, concVars, pullVars, stepVars,
                   flightVars, readVars, portVars, keyVars, postVars>>

ArchiveNext ==
    \/ \E ts \in TimeStamps : SQLiteSaveMessage(ts)
    \/ SQLiteSaveMessageFails
    \/ \E t \in ReferenceTimes : ArchiveMessages(t)

SpecArchive == ArchiveInit /\ [][ArchiveNext]_vars

(***************************************************************************)
(* Claims about the archiver.                                              *)
(***************************************************************************)
Archived == UNION {archives[n] : n \in DOMAIN archives}

\* C1: the active messages together with the messages of all archive bundles
\* are exactly the messages ever saved, and no message is in two places
\* (active storage and a bundle, or two bundles).
C1_NoMessageLostOrDuplicated ==
    /\ db \cup Archived = saved
    /\ db \cap Archived = {}
    /\ \A n1, n2 \in DOMAIN archives : n1 # n2 => archives[n1] \cap archives[n2] = {}

StrictlyOlder(rows, reference_time) ==
    {r \in rows : r.ts < threshold_date(reference_time)}

\* C16: an archive call bundles exactly the active messages strictly older
\* than the reference time minus the threshold, and they leave the active
\* storage; when there is none it returns None and changes nothing.
C16_ArchivesExactlyOlderMessages ==
    [][archResult'.call = "archive"
         => LET older == StrictlyOlder(db, archivedAt'[1])
            IN IF older = {}
               THEN /\ archResult'.path = NoValue
                    /\ UNCHANGED <<db, archives, total_archives_created>>
               ELSE /\ archResult'.path # NoValue
                    /\ archives'[archResult'.path[1]] = older
                    /\ db' = db \ older]_vars

\* C26: a bundle, once created, is never mutated or replaced: every archive
\* call that archives messages adds a new bundle and leaves every existing
\* bundle as it was, also when the new bundle covers the same start and end
\* dates as an existing one.
C26_BundlesAreNeverReplaced ==
    [][(archResult'.call = "archive" /\ archResult'.path # NoValue)
         => /\ \A n \in DOMAIN archives : n \in DOMAIN archives' /\ archives'[n] = archives[n]
            /\ DOMAIN archives' # DOMAIN archives]_vars

(***************************************************************************)
(* Fork merge: sync_forks.copy_messages_to_main.                           *)
(*                                                                         *)
(* A stored message is a record of the JSON object's fields; a field that  *)
(* is absent reads as "" (message_data.get(k, '')).  A timestamp is the    *)
(* string of the field; NullTimestamp stands for a JSON value that is not  *)
(* a string (null, a number).  Garbage is a file json.load cannot read as  *)
(* an object.                                                              *)
(***************************************************************************)
MaxPulledFiles == 1
MaxDirFiles == 5

IsoTimestamp == "2025-01-01T00:00:00Z"
NullTimestamp == "<null>"
Garbage == [content |-> "<not json>", user |-> "", author |-> "", timestamp |-> "",
            source_repo |-> ""]

\* the directories of cloned_repos/ and the file names of a fork's messages/
Repos == {"alice_bookchat", "bob_bookchat"}
ForkFiles == {"m1.json"}

\* a stored message: the values under its keys 'content', 'user', 'author'
\* and 'timestamp'; a key the object does not have reads "", as .get(key, '')
Message(c, u, t, src) ==
    [content |-> c, user |-> u, author |-> "", timestamp |-> t, source_repo |-> src]

\* a message as GitStorage.save_message writes it: the author is under 'author'
AuthoredMessage(c, a, t) == [Message(c, "", t, "") EXCEPT !.author = a]

\* the messages a fork or the origin can hold (no source_repo yet)
ForeignMessages ==
    {Message("hi", "x", IsoTimestamp, ""), Message("hj", "x", IsoTimestamp, ""),
     Message("hi", "x", NullTimestamp, "")}

\* generate_message_hash: sha256 over the JSON of {content, user, timestamp};
\* sha256 is taken to be collision-free, so the digest is the triple itself
generate_message_hash(message_data) ==
    <<message_data.content, message_data.user, message_data.timestamp>>

\* hexdigest()[:12]: 48 bits of the digest; distinct digests can share them.
\* "hi" and "hj" stand for two contents whose digests agree on these bits.
Prefix12(digest) == <<IF digest[1] = "hj" THEN "hi" ELSE digest[1], digest[2], digest[3]>>

\* timestamp_str.replace(...): raises AttributeError when the value is no string
TimestampIsString(t) == t # NullTimestamp

\* datetime.fromisoformat(...).strftime('%Y%m%d_%H%M%S'), with the fallback
date_part(t) == IF t = IsoTimestamp THEN "20250101_000000" ELSE "00000000_000000"

\* a file name of messages/: <base>.json when suf = 0, else <base>_<suf>.json
FileName(base, suf) == [base |-> base, suf |-> suf]

\* generate_message_filename: <date_part>_<first 12 hex digits>.json
generate_message_filename(message_data) ==
    FileName(<<date_part(message_data.timestamp)>>
                \o Prefix12(generate_message_hash(message_data)), 0)

\* i = 1; while path.exists(): path = f"{base}_{i}.{ext}"; i += 1
FirstFreeName(dir, name) ==
    LET free == {i \in 1 .. (Cardinality(DOMAIN dir) + 1) :
                    FileName(name.base, i) \notin DOMAIN dir}
    IN FileName(name.base, CHOOSE i \in free : \A j \in free : i <= j)

Unlink(dir, name) == [n \in (DOMAIN dir) \ {name} |-> dir[n]]
WriteFile(dir, name, data) ==
    [n \in (DOMAIN dir) \cup {name} |-> IF n = name THEN data ELSE dir[n]]
Rename(dir, old, new) == WriteFile(Unlink(dir, old), new, dir[old])

\* mutant: the existing file is renamed but its hash is not recorded as seen
ExistingFileStep_forgets(st, existing_file) ==
    LET message_data == st.dir[existing_file]
        new_path == generate_message_filename(message_data)
    IN IF ~TimestampIsString(message_data.timestamp) \/ existing_file = new_path
       THEN st
       ELSE IF new_path \in DOMAIN st.dir
       THEN [st EXCEPT !.dir = Rename(st.dir, existing_file, FirstFreeName(st.dir, new_path))]
       ELSE [st EXCEPT !.dir = Rename(st.dir, existing_file, new_path)]

\* lines 140-174: one existing file of messages/.  st = [dir, seen]
ExistingFileStep(st, existing_file) ==
    LET message_data == st.dir[existing_file]
        new_path == generate_message_filename(message_data)
        message_hash == generate_message_hash(message_data)
        added == st.seen \cup {message_hash}
    IN IF ~TimestampIsString(message_data.timestamp)
       THEN st                                   \* except Exception: logged
       ELSE IF existing_file = new_path
       THEN [dir |-> st.dir, seen |-> added]
       ELSE IF new_path \in DOMAIN st.dir
       THEN IF generate_message_hash(st.dir[new_path]) = message_hash
            THEN [dir |-> Unlink(st.dir, existing_file), seen |-> added]
            ELSE [dir |-> Rename(st.dir, existing_file, FirstFreeName(st.dir, new_path)),
                  seen |-> added]
       ELSE [dir |-> Rename(st.dir, existing_file, new_path), seen |-> added]

RECURSIVE ExistingFilesLoop(_, _)
ExistingFilesLoop(st, existing_files) ==
    IF existing_files = << >> THEN st
    ELSE ExistingFilesLoop(ExistingFileStep(st, Head(existing_files)), Tail(existing_files))

\* lines 190-229: one file of a fork.  st = [dir, seen, total, dup, copied]
ForkFileStep(st, repo, message_file) ==
    LET data == forks[repo][message_file]
        message_hash == generate_message_hash(data)
        counted == [st EXCEPT !.total = @ + 1]
        message_data == [data EXCEPT !.source_repo = repo]
        new_path == generate_message_filename(message_data)
        target_path == IF new_path \in DOMAIN st.dir
                       THEN FirstFreeName(st.dir, new_path) ELSE new_path
    IN IF data = Garbage
       THEN counted                              \* json.load raises: logged
       ELSE IF message_hash \in st.seen
       THEN [counted EXCEPT !.dup = @ + 1]
       ELSE IF ~TimestampIsString(data.timestamp)
       THEN counted                              \* AttributeError: logged
       ELSE [counted EXCEPT !.dir = WriteFile(st.dir, target_path, message_data),
                            !.seen = @ \cup {message_hash},
                            !.copied = @ + 1]

\* the files are visited in the order iterdir() and glob() yield them:
\* work is a sequence of <<repo, file>>
RECURSIVE ForkFilesLoop(_, _)
ForkFilesLoop(st, work) ==
    IF work = << >> THEN st
    ELSE ForkFilesLoop(ForkFileStep(st, Head(work)[1], Head(work)[2]), Tail(work))

\* the orders in which a directory listing can yield the members of S
Orders(S) ==
    {o \in [1 .. Cardinality(S) -> S] : \A i, j \in 1 .. Cardinality(S) : i # j => o[i] # o[j]}

\* all <<repo, file>> of the clones, fork by fork
ForkWork == {w \in Repos \X ForkFiles : w[2] \in DOMAIN forks[w[1]]}
ForkOrders ==
    {o \in Orders(ForkWork) :
        \A i, j, k \in 1 .. Len(o) : (i < j /\ j < k /\ o[i][1] = o[k][1]) => o[j][1] = o[i][1]}

MergeInit ==
    /\ mainDir = << >>
    /\ forks = [r \in Repos |-> << >>]
    /\ mergeStats = [total_messages |-> 0, duplicate_count |-> 0, copied_count |-> 0]
    /\ mergeFresh = FALSE
    /\ ArchiveIdle
    /\ StoreIdle
    /\ ListIdle
    /\ ConcIdle
    /\ PullIdle
    /\ StepIdle
    /\ FlightIdle
    /\ ReadIdle
    /\ PortIdle
    /\ KeyIdle
    /\ PostIdle

\* clone_or_update_repo: a clone or pull brings a file of the fork's messages/
CloneOrUpdateRepo(repo, message_file, data) ==
    /\ forks' = [forks EXCEPT ![repo] = WriteFile(@, message_file, data)]
    /\ forks' # forks
    /\ mergeFresh' = FALSE
    /\ UNCHANGED <<mainDir, mergeStats>>
    /\ UNCHANGED <<archVars, storeVars, listVars, concVars, pullVars, stepVars,
                   flightVars, readVars, portVars, keyVars, postVars>>

\* git pull of the origin brings a message file into messages/ under the name
\* it has there: a name of an older format, or a hash-qualified one
PullNames ==
    {FileName(<<"msg">>, 0), FileName(<<"old">>, 0)}
        \cup {FileName(generate_message_filename(m).base, i) : m \in ForeignMessages, i \in 0 .. 1}
PullBringsFile(name, data) ==
    /\ name \notin DOMAIN mainDir
    /\ Cardinality(DOMAIN mainDir) < MaxPulledFiles
    /\ mainDir' = WriteFile(mainDir, name, data)
    /\ mergeFresh' = FALSE
    /\ UNCHANGED <<forks, mergeStats>>
    /\ UNCHANGED <<archVars, storeVars, listVars, concVars, pullVars, stepVars,
                   flightVars, readVars, portVars, keyVars, postVars>>

\* copy_messages_to_main(base_dir)
CopyMessagesToMain(existing_files, work) ==
    /\ Cardinality(DOMAIN mainDir) <= MaxDirFiles
    /\ LET renamed == ExistingFilesLoop([dir |-> mainDir, seen |-> {}], existing_files)
           done == ForkFilesLoop([dir |-> renamed.dir, seen |-> renamed.seen,
                                  total |-> 0, dup |-> 0, copied |-> 0], work)
       IN /\ mainDir' = done.dir
          /\ mergeStats' = [total_messages |-> done.total, duplicate_count |-> done.dup,
                            copied_count |-> done.copied]
    /\ mergeFresh' = TRUE
    /\ UNCHANGED forks
    /\ UNCHANGED <<archVars, storeVars, listVars, concVars, pullVars, stepVars,
                   flightVars, readVars, portVars, keyVars, postVars>>

MergeNext ==
    \/ \E r \in Repos, f \in ForkFiles, d \in ForeignMessages \cup {Garbage} :
          CloneOrUpdateRepo(r, f, d)
    \/ \E n \in PullNames, d \in ForeignMessages : PullBringsFile(n, d)
    \/ \E e \in Orders(DOMAIN mainDir), w \in ForkOrders : CopyMessagesToMain(e, w)

SpecMerge == MergeInit /\ [][MergeNext]_vars

\* The same merge over forks whose records were written by
\* GitStorage.save_message, which stores the author under 'author'
GitStorageMessages ==
    {AuthoredMessage("hi", "alice", IsoTimestamp), AuthoredMessage("hi", "bob", IsoTimestamp),
     AuthoredMessage("hj", "alice", IsoTimestamp)}

AuthoredPullNames ==
    {FileName(<<"msg">>, 0)}
        \cup {FileName(generate_message_filename(m).base, i) : m \in GitStorageMessages, i \in 0 .. 1}

MergeAuthoredNext ==
    \/ \E r \in Repos, f \in ForkFiles, d \in GitStorageMessages \cup {Garbage} :
          CloneOrUpdateRepo(r, f, d)
    \/ \E n \in AuthoredPullNames, d \in GitStorageMessages : PullBringsFile(n, d)
    \/ \E e \in Orders(DOMAIN mainDir), w \in ForkOrders : CopyMessagesToMain(e, w)

SpecMergeAuthored == MergeInit /\ [][MergeAuthoredNext]_vars

(***************************************************************************)
(* Claims about the fork merge.                                            *)
(***************************************************************************)
\* the files of messages/ that hold the message with digest h
CopiesInMain(h) == {n \in DOMAIN mainDir : generate_message_hash(mainDir[n]) = h}

\* the digests of the messages that two or more fork files hold
SharedByForks ==
    {generate_message_hash(forks[w[1]][w[2]]) :
        w \in {v \in ForkWork :
                 /\ forks[v[1]][v[2]] # Garbage
                 /\ \E u \in ForkWork :
                       /\ u # v
                       /\ forks[u[1]][u[2]] # Garbage
                       /\ generate_message_hash(forks[u[1]][u[2]])
                            = generate_message_hash(forks[v[1]][v[2]])}}

\* C2: when the same message (content, author, timestamp) is in two or more
\* forks under different paths, messages/ holds exactly one copy of it after
\* copy_messages_to_main.
C2_SharedMessageStoredOnce ==
    mergeFresh => \A h \in SharedByForks : Cardinality(CopiesInMain(h)) = 1

author_of(message_data) ==
    IF message_data.author # "" THEN message_data.author ELSE message_data.user

InMain(message_data) ==
    \E n \in DOMAIN mainDir :
        /\ mainDir[n].content = message_data.content
        /\ author_of(mainDir[n]) = author_of(message_data)
        /\ mainDir[n].timestamp = message_data.timestamp

ForkMessages == UNION {{forks[r][f] : f \in DOMAIN forks[r]} : r \in Repos} \ {Garbage}

\* C13: after a merge, two well-formed fork messages that differ in content,
\* author or timestamp are both present in the main directory, whichever key
\* the stored record keeps its author under.
C13_DistinctMessagesBothKept ==
    mergeFresh =>
        \A m1, m2 \in {m \in ForkMessages : TimestampIsString(m.timestamp)} :
            (m1.content # m2.content \/ author_of(m1) # author_of(m2)
                \/ m1.timestamp # m2.timestamp)
                => InMain(m1) /\ InMain(m2)

\* C27: the merge is a set union: after it returns, for every message in the
\* messages subtree of any cloned fork, the main directory holds a message
\* with the same content, author and timestamp.
C27_MergeIsSetUnion ==
    mergeFresh => \A m \in ForkMessages : InMain(m)

\* The merge over a main directory that already holds message files, brought
\* by git pull of the origin under names of an older format or hash-qualified
\* ones, with records that keep the author under 'user' or, as GitStorage
\* writes them, under 'author'
MaxCanonicalFiles == 2

CanonicalMessages ==
    {Message("hi", "x", IsoTimestamp, ""), Message("hj", "x", IsoTimestamp, ""),
     AuthoredMessage("hi", "alice", IsoTimestamp), AuthoredMessage("hi", "bob", IsoTimestamp)}

CanonicalNames ==
    {FileName(<<"msg">>, 0), FileName(<<"old">>, 0)}
        \cup {generate_message_filename(m) : m \in CanonicalMessages}

CanonicalDirs ==
    UNION {[names -> CanonicalMessages] :
              names \in {S \in SUBSET CanonicalNames : Cardinality(S) <= MaxCanonicalFiles}}

MergeCanonicalInit ==
    /\ mainDir \in CanonicalDirs
    /\ forks = [r \in Repos |-> << >>]
    /\ mergeStats = [total_messages |-> 0, duplicate_count |-> 0, copied_count |-> 0]
    /\ mergeFresh = FALSE
    /\ ArchiveIdle
    /\ StoreIdle
    /\ ListIdle
    /\ ConcIdle
    /\ PullIdle
    /\ StepIdle
    /\ FlightIdle
    /\ ReadIdle
    /\ PortIdle
    /\ KeyIdle
    /\ PostIdle

MergeCanonicalNext ==
    \/ \E r \in Repos, f \in ForkFiles, d \in CanonicalMessages : CloneOrUpdateRepo(r, f, d)
    \/ \E e \in Orders(DOMAIN mainDir), w \in ForkOrders : CopyMessagesToMain(e, w)

SpecMergeCanonical == MergeCanonicalInit /\ [][MergeCanonicalNext]_vars

\* a file of the directory holds the message (content, author, timestamp) of the record
HeldIn(dir, message_data) ==
    \E n \in DOMAIN dir :
        /\ dir[n].content = message_data.content
        /\ author_of(dir[n]) = author_of(message_data)
        /\ dir[n].timestamp = message_data.timestamp

\* C38: a merge never loses a message of the main directory: every message
\* (content, author, timestamp) that messages/ held before
\* copy_messages_to_main is still held by a file of messages/ after it, also
\* when the merge renames existing files or two files map to the same
\* hash-qualified name.
C38_MergeKeepsCanonicalMessages ==
    [][mergeFresh' => \A n \in DOMAIN mainDir : HeldIn(mainDir', mainDir[n])]_vars

(***************************************************************************)
(* Message store and identities: GitManager, KeyManager, GitStorage and    *)
(* FileStorage.                                                            *)
(*                                                                         *)
(* A text is a sequence of characters; the characters of the model are a   *)
(* blank, a visible character and, as one character each, the JSON         *)
(* documents of username-change requests.                                  *)
(***************************************************************************)
MaxClock == 1      \* the wall clock runs over the seconds 0 .. MaxClock
MaxCalls == 2      \* save, rename and pull calls per behaviour

pull_cooldown == 5

Whitespace == {" "}

RECURSIVE rstrip(_)
rstrip(s) ==
    IF s = << >> THEN s
    ELSE IF s[Len(s)] \in Whitespace THEN rstrip(SubSeq(s, 1, Len(s) - 1)) ELSE s

RECURSIVE lstrip(_)
lstrip(s) ==
    IF s = << >> THEN s
    ELSE IF s[1] \in Whitespace THEN lstrip(Tail(s)) ELSE s

strip(s) == lstrip(rstrip(s))

\* the names a request may carry: well-formed ones, one that is too short, one
\* with a character outside the class, one that ends with a line feed
Usernames == {"anonymous", "alice", "bob"}
ShortName == "ab"
LongName == "valid_user1"
SlashName == "test/user"
LineFeed == "<LF>"
NewlineName == "bob" \o LineFeed

\* the characters of a name
Characters(name) ==
    CASE name = "anonymous" -> <<"a", "n", "o", "n", "y", "m", "o", "u", "s">>
      [] name = "alice" -> <<"a", "l", "i", "c", "e">>
      [] name = "bob" -> <<"b", "o", "b">>
      [] name = ShortName -> <<"a", "b">>
      [] name = LongName -> <<"v", "a", "l", "i", "d", "_", "u", "s", "e", "r", "1">>
      [] name = SlashName -> <<"t", "e", "s", "t", "/", "u", "s", "e", "r">>
      [] name = NewlineName -> <<"b", "o", "b", LineFeed>>
NameLength(name) == Len(Characters(name))

\* [a-zA-Z0-9_]
WordCharacters ==
    {"a", "b", "c", "d", "e", "i", "l", "m", "n", "o", "r", "s", "t", "u", "v", "y", "_", "1"}

\* ^[a-zA-Z0-9_]{3,20} then $ : three to twenty characters of the class, and
\* then the end of the string or a line feed that is the string's last character
MatchesFully(chars) ==
    /\ Len(chars) >= 3
    /\ Len(chars) <= 20
    /\ \A i \in 1 .. Len(chars) : chars[i] \in WordCharacters
USERNAME_REGEX_match(name) ==
    LET chars == Characters(name)
    IN \/ MatchesFully(chars)
       \/ /\ chars # << >>
          /\ chars[Len(chars)] = LineFeed
          /\ MatchesFully(SubSeq(chars, 1, Len(chars) - 1))

\* FileStorage.verify_username; the server's verification endpoint applies the
\* same pattern with re.match
verify_username(username) == USERNAME_REGEX_match(username)

\* the JSON document {"new_username": "<name>"}, and json.loads(...)['new_username']
JsonRequest(name) == "{\"new_username\": \"" \o name \o "\"}"
JsonArray == "[]"
JsonDocuments == {JsonRequest(n) : n \in Usernames \cup {ShortName}} \cup {JsonArray}
RenameRequest(name) == <<JsonRequest(name)>>

\* json.loads(text) succeeds when the text is one JSON document, blanks around
\* it allowed
IsJson(text) == Len(strip(text)) = 1 /\ strip(text)[1] \in JsonDocuments
\* the document is an object with the key new_username; subscripting any other
\* document raises KeyError or TypeError
HasNewUsername(text) ==
    IsJson(text) /\ \E n \in Usernames \cup {ShortName} : strip(text)[1] = JsonRequest(n)
new_username_of(text) ==
    CHOOSE n \in Usernames \cup {ShortName} : strip(text)[1] = JsonRequest(n)

Hello == <<"h">>
Padded == <<" ", "h", " ">>
Empty == << >>
Blank == <<" ">>
\* a line "-- " between two lines of the content
Separator == "<LF>-- <LF>"
Quoted == <<"h", Separator, "k">>

(***************************************************************************)
(* KeyManager of git_manager.py.  A key pair is a number; the private and  *)
(* the public half of pair k are both written k.  A signature is the pair  *)
(* of the signing key and the signed bytes, which is what openssl's verify *)
(* can tell apart; hex() / bytes.fromhex() carry it unchanged.             *)
(***************************************************************************)
Put(dir, name, data) ==
    [n \in (DOMAIN dir) \cup {name} |-> IF n = name THEN data ELSE dir[n]]
Remove(dir, name) == [n \in (DOMAIN dir) \ {name} |-> dir[n]]

\* sign_message: openssl dgst -sign keys/local.pem, whoever the author is
can_sign(priv) == "local" \in DOMAIN priv
sign_message(priv, message) == [key |-> priv["local"], message |-> message]

\* a Signature footer that is not a string of hex digits
MalformedSignature == [malformed |-> TRUE]
IsHex(signature) == "key" \in DOMAIN signature

\* verify_signature: openssl dgst -verify <public key> -signature <signature>.
\* bytes.fromhex raises ValueError for a malformed signature; the handler
\* returns False, but the finally clause then reads pub_path, which is not
\* yet bound, and UnboundLocalError leaves the method
verify_signature_raises(signature) == ~IsHex(signature)
verify_signature(message, signature, public_key) ==
    /\ IsHex(signature)
    /\ signature.key = public_key
    /\ signature.message = message

\* generate_keypair(username): a fresh pair, written over <username>.pem / .pub
generate_keypair(keys, username) ==
    [keys EXCEPT !.priv = Put(@, username, keys.generated + 1),
                 !.pub = Put(@, username, keys.generated + 1),
                 !.generated = @ + 1]

\* get_private_key_path(username), under the default KEYS_DIR
get_private_key_path(username) == "keys/" \o username \o ".pem"

\* get_public_key(username): the .pub file's text, None when there is no file
get_public_key(pub, username) ==
    IF username \in DOMAIN pub THEN Some(pub[username]) ELSE NoValue

(***************************************************************************)
(* Files of messages/.  A file written by GitManager is its body followed  *)
(* by the footers; one written by GitStorage is a JSON object; one written *)
(* by FileStorage is the Date and Author headers followed by the content.  *)
(***************************************************************************)
MessageFileName(stamp, author) == ToString(stamp) \o "_" \o author \o ".txt"
MessagePath(filename) == "messages/" \o filename
KeyPath(username) == "identity/public_keys/" \o username \o ".pub"

\* the footers format_message writes, as the dictionary parse_message rebuilds
Footers(author, date_str, parent_id, signature, message_type) ==
    LET base == [k \in {"Author", "Date", "Public-Key"} |->
                    IF k = "Author" THEN <<author>>
                    ELSE IF k = "Date" THEN <<date_str>>
                    ELSE <<KeyPath(author)>>]
        p == IF parent_id # NoValue THEN Put(base, "Parent-Message", parent_id) ELSE base
        g == IF signature # NoValue THEN Put(p, "Signature", signature) ELSE p
    IN IF message_type # NoValue THEN Put(g, "Type", message_type) ELSE g

format_message(message_content, author, date_str, parent_id, signature, message_type) ==
    [format |-> "footers",
     body |-> rstrip(message_content),
     footers |-> Footers(author, date_str, parent_id, signature, message_type)]

\* content.split('\n-- \n', 1)[0]: the text before the first separator line;
\* the separator that format_message appends follows the whole body
before_separator(body) ==
    IF \E i \in 1 .. Len(body) : body[i] = Separator
    THEN SubSeq(body, 1, (CHOOSE i \in 1 .. Len(body) :
                            /\ body[i] = Separator
                            /\ \A j \in 1 .. i - 1 : body[j] # Separator) - 1)
    ELSE body

\* parse_message: the text before the first separator, stripped, and the
\* lines after it that hold ": " (the characters of a body hold none)
parse_message(file) ==
    [metadata |-> file.footers, message |-> strip(before_separator(file.body))]

\* dict.get(key): <<value>> or None
Get(dict, key) == IF key \in DOMAIN dict THEN dict[key] ELSE NoValue
GetOr(dict, key, default) == IF key \in DOMAIN dict THEN dict[key][1] ELSE default

\* verify_message: None for an unsigned message, False when the author has no
\* public key, otherwise what verify_signature says
verify_message(pub, content, metadata) ==
    LET signature == Get(metadata, "Signature")
        author == GetOr(metadata, "Author", "anonymous")
        public_key == get_public_key(pub, author)
    IN IF signature = NoValue THEN NoValue
       ELSE IF public_key = NoValue THEN Some(FALSE)
       ELSE Some(verify_signature(content, signature[1], public_key[1]))

\* verify_message catches ValueError only: what verify_signature raises
\* reaches the caller
verify_message_raises(pub, metadata) ==
    /\ Get(metadata, "Signature") # NoValue
    /\ get_public_key(pub, GetOr(metadata, "Author", "anonymous")) # NoValue
    /\ verify_signature_raises(metadata["Signature"][1])

\* a file name that was not built by save_message
LegacyFileName == "legacy_message.txt"

\* the author and the stamp a file name of messages/ was built from; a stem
\* of two parts that are no date and time is sliced into a date all the same
NamedAuthors == Usernames \cup {ShortName, "system"}
stem_author(filename) ==
    IF \E t \in 0..MaxClock, a \in NamedAuthors : filename = MessageFileName(t, a)
    THEN CHOOSE a \in NamedAuthors : \E t \in 0..MaxClock : filename = MessageFileName(t, a)
    ELSE "anonymous"
stem_date(filename) ==
    IF \E t \in 0..MaxClock, a \in NamedAuthors : filename = MessageFileName(t, a)
    THEN Some([instant |-> CHOOSE t \in 0..MaxClock :
                              \E a \in NamedAuthors : filename = MessageFileName(t, a),
               offset |-> "Z"])
    ELSE IF filename = LegacyFileName
    THEN Some([text |-> "lega-cy-Tme:ss:age", offset |-> "Z"])
    ELSE NoValue

\* str(value).lower() of a JSON boolean
str_lower(flag) == IF flag THEN "true" ELSE "false"

\* read_message.process_message(content) for the file called filename: the
\* record; callers first rule out the files for which it returns None or raises
process_message(pub, filename, file) ==
    IF file.format = "json"
    THEN [id |-> filename,
          content |-> GetOr(file.data, "content", Empty),
          author |-> GetOr(file.data, "author", "anonymous"),
          createdAt |-> Get(file.data, "timestamp"),
          parent_id |-> Get(file.data, "parent_id"),
          signed |-> "signature" \in DOMAIN file.data,
          verified |-> str_lower(GetOr(file.data, "verified", FALSE)),
          type |-> GetOr(file.data, "type", "message")]
    ELSE LET parsed == parse_message(file)
             metadata == parsed.metadata
             date == IF Get(metadata, "Date") # NoValue
                     THEN Some([instant |-> metadata["Date"][1], offset |-> "local"])
                     ELSE stem_date(filename)
             author == IF GetOr(metadata, "Author", "anonymous") = "anonymous"
                       THEN stem_author(filename)
                       ELSE GetOr(metadata, "Author", "anonymous")
             verified == verify_message(pub, parsed.message, metadata)
         IN [id |-> filename,
             content |-> parsed.message,
             author |-> author,
             createdAt |-> IF date # NoValue THEN date ELSE Some("No timestamp"),
             parent_id |-> Get(metadata, "Parent-Message"),
             signed |-> "Signature" \in DOMAIN metadata,
             verified |-> str_lower(IF verified # NoValue THEN verified[1] ELSE FALSE),
             type |-> GetOr(metadata, "Type", "message")]

\* process_message returns None for .gitkeep, for a file that is empty or
\* blank, and for JSON that is not an object (the try block ends without a
\* return)
process_message_none(filename, file) ==
    \/ filename = ".gitkeep"
    \/ file.format = "blank"
    \/ file.format = "json-value"

\* process_message raises when verify_message does; read_message logs it
process_message_raises(pub, file) ==
    file.format = "footers" /\ verify_message_raises(pub, parse_message(file).metadata)

\* GitManager.read_message(filename): the file of messages/; None when there
\* is no such file and when process_message returned None or raised
\* (cloned_repos/ holds no fork here)
read_message(dir, pub, filename) ==
    IF filename \notin DOMAIN dir THEN NoValue
    ELSE IF process_message_none(filename, dir[filename]) THEN NoValue
    ELSE IF process_message_raises(pub, dir[filename]) THEN NoValue
    ELSE Some(process_message(pub, filename, dir[filename]))

\* FileStorage.save_message's file and what FileStorage.get_messages makes of it
headers_file(user, content, timestamp) ==
    [format |-> "headers", date |-> timestamp, author |-> user, content |-> content]

FileStorage_get_messages(dir) ==
    {[content |-> dir[f].content,
      author |-> dir[f].author,
      createdAt |-> Some(dir[f].date),
      id |-> f,
      verified |-> "true",
      type |-> "message"] : f \in {n \in DOMAIN dir : dir[n].format = "headers"}}

\* GitStorage.save_message's JSON object and the dictionaries
\* GitStorage.get_messages returns for JSON files: the object plus 'file'
json_file(data) == [format |-> "json", data |-> data]

GitStorage_get_messages(dir) ==
    {[id |-> f,
      content |-> GetOr(dir[f].data, "content", Empty),
      author |-> GetOr(dir[f].data, "author", "anonymous"),
      verified |-> IF "verified" \in DOMAIN dir[f].data
                   THEN str_lower(dir[f].data["verified"][1]) ELSE "absent"]
       : f \in {n \in DOMAIN dir : dir[n].format = "json"}}

(***************************************************************************)
(* GitManager.  The operators below work on a snapshot st of the store:    *)
(* dir (messages/), priv and pub (key files), generated, the git index     *)
(* staged, HEAD committed and origin/main pushed; sync_failed records that *)
(* a git command of the call failed and raised that an exception left      *)
(* save_message.  fail names the git command that exits non-zero whenever  *)
(* the call runs it.                                                       *)
(***************************************************************************)
GitCommands == {"pull", "add", "commit", "push"}

Snapshot ==
    [dir |-> messages_dir, priv |-> private_keys, pub |-> public_keys,
     generated |-> keys_generated, staged |-> staged, committed |-> committed,
     pushed |-> pushed, sync_failed |-> FALSE, raised |-> FALSE]

\* mutant: the push is run also when git status --porcelain prints nothing
sync_changes_to_github_always_pushes(st, path, exists, blob, fail) ==
    IF ~use_github \/ ~exists THEN st
    ELSE IF fail = "add" THEN [st EXCEPT !.sync_failed = TRUE]
    ELSE LET added == [st EXCEPT !.staged = Put(@, path, blob)]
         IN IF path \in DOMAIN added.committed /\ added.committed[path] = blob
            THEN IF fail = "push" THEN [added EXCEPT !.sync_failed = TRUE]
                 ELSE [added EXCEPT !.pushed = added.committed]
            ELSE IF fail = "commit" THEN [added EXCEPT !.sync_failed = TRUE]
            ELSE LET done == [added EXCEPT !.committed = added.staged]
                 IN IF fail = "push" THEN [done EXCEPT !.sync_failed = TRUE]
                    ELSE [done EXCEPT !.pushed = done.committed]

\* sync_changes_to_github(filepath, author): git add, status --porcelain,
\* commit, push; a CalledProcessError is logged and dropped
sync_changes_to_github(st, path, exists, blob, fail) ==
    IF ~use_github \/ ~exists THEN st
    ELSE IF fail = "add" THEN [st EXCEPT !.sync_failed = TRUE]
    ELSE LET added == [st EXCEPT !.staged = Put(@, path, blob)]
         IN IF path \in DOMAIN added.committed /\ added.committed[path] = blob
            THEN added
            ELSE IF fail = "commit" THEN [added EXCEPT !.sync_failed = TRUE]
            ELSE LET done == [added EXCEPT !.committed = added.staged]
                 IN IF fail = "push" THEN [done EXCEPT !.sync_failed = TRUE]
                    ELSE [done EXCEPT !.pushed = done.committed]

sync_message(st, filename, fail) ==
    IF filename \in DOMAIN st.dir
    THEN sync_changes_to_github(st, MessagePath(filename), TRUE, st.dir[filename], fail)
    ELSE st

\* mutant: the rename publishes the new private key file
sync_key_private(st, username, fail) ==
    IF username \in DOMAIN st.priv
    THEN sync_changes_to_github(st, get_private_key_path(username), TRUE,
                                st.priv[username], fail)
    ELSE st

sync_key(st, username, fail) ==
    IF username \in DOMAIN st.pub
    THEN sync_changes_to_github(st, KeyPath(username), TRUE, st.pub[username], fail)
    ELSE st

\* pull_from_github runs git when GitHub is enabled and the cooldown is over
pull_allowed ==
    /\ use_github
    /\ IF last_pull_time = NoValue THEN TRUE
       ELSE clock - last_pull_time[1] >= pull_cooldown

\* ensure_repo_exists: the pull before the write; a failing fetch is dropped
ensure_repo_exists(st, fail) ==
    IF pull_allowed /\ fail = "pull" THEN [st EXCEPT !.sync_failed = TRUE] ELSE st

\* what of handle_username_change's file operations raises OSError, if any:
\* public_keys_dir.mkdir, the write of <new>.pub in generate_keypair (after
\* <new>.pem was written), or old_private_key.unlink
OsErrors == {"none", "mkdir", "write_public", "unlink_private"}

\* handle_username_change(old_username, new_username) when the file operation
\* os_error raises OSError as soon as it is attempted: the handler returns
\* (False, "Failed to update username: ...") and undoes nothing
handle_username_change_os(st, old_username, new_username, fail, os_error) ==
    IF ~USERNAME_REGEX_match(new_username)
    THEN [success |-> FALSE, st |-> st]
    ELSE IF os_error = "mkdir"
    THEN [success |-> FALSE, st |-> st]
    ELSE IF os_error = "write_public"
    THEN [success |-> FALSE,
          st |-> [st EXCEPT !.priv = Put(@, new_username, st.generated + 1),
                            !.generated = @ + 1]]
    ELSE LET generated == generate_keypair(st, new_username)
             cleaned ==
                 IF old_username \in DOMAIN generated.pub
                 THEN [generated EXCEPT
                          !.pub = Remove(@, old_username),
                          !.priv = IF old_username \in DOMAIN @
                                   THEN Remove(@, old_username) ELSE @]
                 ELSE generated
         IN IF /\ os_error = "unlink_private"
               /\ old_username \in DOMAIN generated.pub
               /\ old_username \in DOMAIN generated.priv
            THEN [success |-> FALSE,
                  st |-> [generated EXCEPT !.pub = Remove(@, old_username)]]
            ELSE [success |-> TRUE, st |-> sync_key(cleaned, new_username, fail)]

\* handle_username_change(old_username, new_username), no file operation failing
handle_username_change(st, old_username, new_username, fail) ==
    handle_username_change_os(st, old_username, new_username, fail, "none")

\* save_message up to filepath.write_text: pull, sign, format, write
write_message(st, message_content, author, parent_id, sign, message_type, fail) ==
    LET pulled == ensure_repo_exists(st, fail)
    IN IF sign /\ ~can_sign(pulled.priv)
       THEN [pulled EXCEPT !.raised = TRUE]
       ELSE [pulled EXCEPT !.dir =
               Put(@, MessageFileName(clock, author),
                   format_message(message_content, author, clock, parent_id,
                       IF sign THEN Some(sign_message(pulled.priv, message_content))
                       ELSE NoValue,
                       message_type))]

\* the nested save_message(<error text>, "system", parent_id=filename,
\* message_type="error"), signed and dated now
FailedText == <<"Username change failed: Username must be 3-20 characters long">>
InvalidFormatText == <<"Invalid username change message format">>

save_error_message(st, text, parent_id, fail) ==
    LET written == write_message(st, text, "system", Some(parent_id), TRUE,
                                 Some("error"), fail)
    IN IF written.raised THEN written
       ELSE sync_message(written, MessageFileName(clock, "system"), fail)

\* GitManager.save_message(message_content, author, sign=, message_type=)
GitManager_save_message(st, message_content, author, sign, message_type, fail) ==
    LET filename == MessageFileName(clock, author)
        written == write_message(st, message_content, author, NoValue, sign,
                                 message_type, fail)
        handled ==
            IF message_type # Some("username_change") THEN written
            ELSE IF ~IsJson(message_content)
                 THEN save_error_message(written, InvalidFormatText, filename, fail)
            ELSE IF ~HasNewUsername(message_content)
                 THEN [written EXCEPT !.raised = TRUE]
            ELSE LET change == handle_username_change(written, author,
                                   new_username_of(message_content), fail)
                 IN IF change.success THEN change.st
                    ELSE save_error_message(change.st, FailedText, filename, fail)
    IN IF written.raised THEN written
       ELSE IF handled.raised THEN handled
       ELSE sync_message(handled, filename, fail)

(***************************************************************************)
(* GitStorage and FileStorage.                                             *)
(***************************************************************************)
\* GitStorage.save_message(user, content, timestamp, sign): True or False.
\* With sign set the call of key_manager.has_key_pair, which the KeyManager
\* of key_manager.py does not have, ends the save in the outer except.
GitStorage_save_message(st, user, content, sign, fail) ==
    LET filename == MessageFileName(clock, user)
        path == MessagePath(filename)
        blob == json_file([k \in {"author", "content", "timestamp"} |->
                              IF k = "author" THEN <<user>>
                              ELSE IF k = "content" THEN <<content>>
                              ELSE <<clock>>])
        written == [st EXCEPT !.dir = Put(@, filename, blob)]
        added == [written EXCEPT !.staged = Put(@, path, blob)]
        commit == [added EXCEPT !.committed = Put(@, path, blob)]
    IN IF sign THEN [returned |-> FALSE, st |-> st]
       ELSE IF fail = "add"
            THEN [returned |-> FALSE, st |-> [written EXCEPT !.sync_failed = TRUE]]
       ELSE IF fail = "commit" \/ (path \in DOMAIN st.committed /\ st.committed[path] = blob)
            THEN [returned |-> FALSE, st |-> [added EXCEPT !.sync_failed = TRUE]]
       ELSE [returned |-> TRUE,
             st |-> sync_changes_to_github(commit, path, TRUE, blob, fail)]

\* FileStorage.save_message(user, content, timestamp)
FileStorage_save_message(st, user, content) ==
    [st EXCEPT !.dir = Put(@, MessageFileName(clock, user),
                           headers_file(user, content, clock))]

(***************************************************************************)
(* Listing: get_messages(limit) of GitStorage and of FileStorage over the  *)
(* files of messages/, each with the st_mtime of its last write.           *)
(***************************************************************************)
MaxWrites == 3
MaxLimit == 2

ListedNames == {"a.txt", "b.txt", "c.txt"}

\* a file whose bytes are not text: open(file_path).read() raises
Undecodable == [format |-> "undecodable"]
ListedFiles ==
    {headers_file("alice", Hello, 0),
     json_file([k \in {"author", "content"} |-> IF k = "author" THEN <<"bob">> ELSE <<Hello>>]),
     Undecodable}

\* get_messages(limit=None) and get_messages(limit=n)
Limits == {NoValue} \cup {Some(n) : n \in 0 .. MaxLimit}

\* sorted(glob('*.txt'), key=st_mtime, reverse=True)
RECURSIVE sorted_by_mtime(_, _)
sorted_by_mtime(dir, names) ==
    IF names = {} THEN << >>
    ELSE LET newest == CHOOSE n \in names :
                          \A m \in names : dir[m].st_mtime <= dir[n].st_mtime
         IN <<newest>> \o sorted_by_mtime(dir, names \ {newest})

\* message_files[:limit]
Slice(message_files, limit) ==
    SubSeq(message_files, 1, IF limit < Len(message_files) THEN limit ELSE Len(message_files))

\* the body of GitStorage.get_messages's loop: the dictionary appended for
\* the file, NoValue when reading it raises and the loop continues
GitStorage_message_dict(file_path, file) ==
    IF file.format = "undecodable" THEN NoValue
    ELSE IF file.format = "json"
    THEN Some([file |-> file_path,
               author |-> GetOr(file.data, "author", "anonymous"),
               content |-> GetOr(file.data, "content", Empty)])
    ELSE Some([file |-> file_path, author |-> file.author, content |-> file.content])

\* the body of FileStorage.get_messages's loop: a file without Date: and
\* Author: lines appends nothing
FileStorage_message_dict(file_path, file) ==
    IF file.format = "headers"
    THEN Some([id |-> file_path, author |-> file.author, content |-> file.content,
               createdAt |-> file.date, verified |-> "true", type |-> "message"])
    ELSE NoValue

\* the messages list after the loop over message_files
Appended(dicts) ==
    LET IsAppended(d) == d # NoValue
        kept == SelectSeq(dicts, IsAppended)
    IN [i \in 1 .. Len(kept) |-> kept[i][1]]

\* GitStorage.get_messages(limit): "if limit is not None" truncates
GitStorage_get_messages_limit(dir, limit) ==
    LET message_files == sorted_by_mtime(dir, DOMAIN dir)
        taken == IF limit # NoValue THEN Slice(message_files, limit[1]) ELSE message_files
    IN Appended([i \in 1 .. Len(taken) |-> GitStorage_message_dict(taken[i], dir[taken[i]].file)])

\* FileStorage.get_messages(limit): "if limit" truncates, so not for 0
FileStorage_get_messages_limit(dir, limit) ==
    LET message_files == sorted_by_mtime(dir, DOMAIN dir)
        truthy == IF limit = NoValue THEN FALSE ELSE limit[1] # 0
        taken == IF truthy THEN Slice(message_files, limit[1]) ELSE message_files
    IN Appended([i \in 1 .. Len(taken) |-> FileStorage_message_dict(taken[i], dir[taken[i]].file)])

ListInit ==
    /\ ListIdle
    /\ ConcIdle
    /\ PullIdle
    /\ StepIdle
    /\ FlightIdle
    /\ ReadIdle
    /\ PortIdle
    /\ KeyIdle
    /\ PostIdle
    /\ ArchiveIdle
    /\ MergeIdle
    /\ StoreIdle

\* a save or a pull writes a file of messages/; its st_mtime is now
WriteMessageFile(name, file) ==
    /\ writes < MaxWrites
    /\ listed_dir' = Put(listed_dir, name, [st_mtime |-> writes + 1, file |-> file])
    /\ writes' = writes + 1
    /\ listResult' = [call |-> "write"]
    /\ UNCHANGED <<archVars, mergeVars, storeVars, concVars, pullVars, stepVars,
                   flightVars, readVars, portVars, keyVars, postVars>>

GitStorageGetMessages(limit) ==
    /\ listResult' = [call |-> "get_messages", storage |-> "GitStorage", limit |-> limit,
                      returned |-> GitStorage_get_messages_limit(listed_dir, limit)]
    /\ UNCHANGED <<listed_dir, writes>>
    /\ UNCHANGED <<archVars, mergeVars, storeVars, concVars, pullVars, stepVars,
                   flightVars, readVars, portVars, keyVars, postVars>>

FileStorageGetMessages(limit) ==
    /\ listResult' = [call |-> "get_messages", storage |-> "FileStorage", limit |-> limit,
                      returned |-> FileStorage_get_messages_limit(listed_dir, limit)]
    /\ UNCHANGED <<listed_dir, writes>>
    /\ UNCHANGED <<archVars, mergeVars, storeVars, concVars, pullVars, stepVars,
                   flightVars, readVars, portVars, keyVars, postVars>>

ListNext ==
    \/ \E name \in ListedNames, file \in ListedFiles : WriteMessageFile(name, file)
    \/ \E limit \in Limits : GitStorageGetMessages(limit)
    \/ \E limit \in Limits : FileStorageGetMessages(limit)

SpecList == ListInit /\ [][ListNext]_vars

\* the readable messages of the directory, newest first, as the storage
\* returns each of them
ReadableMessages(storage) ==
    LET message_files == sorted_by_mtime(listed_dir, DOMAIN listed_dir)
    IN Appended([i \in 1 .. Len(message_files) |->
                    IF storage = "GitStorage"
                    THEN GitStorage_message_dict(message_files[i],
                                                 listed_dir[message_files[i]].file)
                    ELSE FileStorage_message_dict(message_files[i],
                                                  listed_dir[message_files[i]].file)])

\* C18: get_messages(limit) returns the first min(limit, N) of the N readable
\* messages ordered newest first by modification time, for every limit >= 0,
\* and all N without a limit; an unreadable file among the newest does not
\* make the result shorter.
C18_ListReturnsNewestReadable ==
    listResult.call = "get_messages"
        => listResult.returned =
              (IF listResult.limit = NoValue THEN ReadableMessages(listResult.storage)
               ELSE Slice(ReadableMessages(listResult.storage), listResult.limit[1]))

(***************************************************************************)
(* The store as a state machine.                                           *)
(***************************************************************************)
Backends == {"GitManager", "GitStorage", "FileStorage"}

\* the save requests tried: content, author, sign and message type
Request(content, author, sign, message_type) ==
    [content |-> content, author |-> author, sign |-> sign, type |-> message_type]

SaveRequests ==
    {Request(Hello, "anonymous", TRUE, NoValue),
     Request(Hello, "bob", TRUE, NoValue),
     Request(Padded, "anonymous", TRUE, NoValue),
     Request(Quoted, "bob", FALSE, NoValue),
     Request(Empty, "anonymous", FALSE, NoValue),
     Request(Blank, "bob", TRUE, NoValue),
     Request(RenameRequest("bob"), "anonymous", TRUE, Some("username_change")),
     Request(RenameRequest(ShortName), "alice", TRUE, Some("username_change")),
     Request(Hello, "bob", TRUE, Some("username_change")),
     Request(<<JsonArray>>, "alice", FALSE, Some("username_change"))}

\* the new usernames asked for
RequestedNames == {"alice", "bob", ShortName, NewlineName}

\* the names sent to the verification endpoint
VerifiedNames == {ShortName, LongName, SlashName, NewlineName}

\* messages in the old JSON format and others that a pull from origin brings
LegacyFiles ==
    {json_file([k \in {"author", "content", "verified"} |->
                   IF k = "author" THEN <<"bob">>
                   ELSE IF k = "content" THEN <<Hello>>
                   ELSE <<TRUE>>]),
     \* a message whose Signature footer is not hex
     format_message(Hello, "anonymous", 0, NoValue, Some(MalformedSignature), NoValue),
     \* a message without signature
     format_message(Hello, "anonymous", 0, NoValue, NoValue, NoValue),
     \* a file holding the JSON value [] and a file holding a blank line
     [format |-> "json-value"],
     [format |-> "blank"]}

\* after construction: KeyManager.__init__ has generated local.pem / local.pub,
\* GitManager.__init__ has copied local.pub to anonymous.pub and, with GitHub
\* enabled, tried to publish it
StoreInit ==
    /\ backend \in Backends
    /\ use_github \in (IF backend = "FileStorage" THEN {FALSE} ELSE BOOLEAN)
    /\ git_fails \in (IF use_github THEN GitCommands \cup {"none"}
                      ELSE IF backend = "GitStorage" THEN {"none", "add", "commit"}
                      ELSE {"none"})
    /\ clock = 0
    /\ messages_dir = << >>
    /\ private_keys = [n \in {"local"} |-> 0]
    /\ public_keys = [n \in {"local", "anonymous"} |-> 0]
    /\ keys_generated = 0
    /\ last_pull_time = NoValue
    /\ staged = IF ~use_github \/ git_fails = "add" THEN << >>
                ELSE [n \in {KeyPath("anonymous")} |-> 0]
    /\ committed = IF git_fails = "commit" THEN << >> ELSE staged
    /\ pushed = IF git_fails = "push" THEN << >> ELSE committed
    /\ calls = 0
    /\ storeResult = [call |-> "init"]
    /\ ArchiveIdle
    /\ MergeIdle
    /\ ListIdle
    /\ ConcIdle
    /\ PullIdle
    /\ StepIdle
    /\ FlightIdle
    /\ ReadIdle
    /\ PortIdle
    /\ KeyIdle
    /\ PostIdle

StoreBecomes(st) ==
    /\ messages_dir' = st.dir
    /\ private_keys' = st.priv
    /\ public_keys' = st.pub
    /\ keys_generated' = st.generated
    /\ staged' = st.staged
    /\ committed' = st.committed
    /\ pushed' = st.pushed

SaveResult(req, filename, returned, st) ==
    [call |-> "save", content |-> req.content, author |-> req.author,
     sign |-> req.sign, type |-> req.type, filename |-> filename,
     returned |-> returned, raised |-> st.raised, sync_failed |-> st.sync_failed]

\* GitManager.save_message
GitManagerSave(req) ==
    /\ backend = "GitManager"
    /\ calls < MaxCalls
    /\ LET st == GitManager_save_message(Snapshot, req.content, req.author,
                                         req.sign, req.type, git_fails)
       IN /\ StoreBecomes(st)
          /\ storeResult' = SaveResult(req, MessageFileName(clock, req.author),
                                       ~st.raised, st)
    /\ calls' = calls + 1
    /\ UNCHANGED <<backend, use_github, git_fails, clock, last_pull_time>>
    /\ UNCHANGED <<archVars, mergeVars, listVars, concVars, pullVars, stepVars,
                   flightVars, readVars, portVars, keyVars, postVars>>

\* GitStorage.save_message
GitStorageSave(req) ==
    /\ backend = "GitStorage"
    /\ calls < MaxCalls
    /\ LET out == GitStorage_save_message(Snapshot, req.author, req.content,
                                          req.sign, git_fails)
       IN /\ StoreBecomes(out.st)
          /\ storeResult' = SaveResult(req, MessageFileName(clock, req.author),
                                       out.returned, out.st)
    /\ calls' = calls + 1
    /\ UNCHANGED <<backend, use_github, git_fails, clock, last_pull_time>>
    /\ UNCHANGED <<archVars, mergeVars, listVars, concVars, pullVars, stepVars,
                   flightVars, readVars, portVars, keyVars, postVars>>

\* FileStorage.save_message
FileStorageSave(req) ==
    /\ backend = "FileStorage"
    /\ calls < MaxCalls
    /\ LET st == FileStorage_save_message(Snapshot, req.author, req.content)
       IN /\ StoreBecomes(st)
          /\ storeResult' = SaveResult(req, MessageFileName(clock, req.author), TRUE, st)
    /\ calls' = calls + 1
    /\ UNCHANGED <<backend, use_github, git_fails, clock, last_pull_time>>
    /\ UNCHANGED <<archVars, mergeVars, listVars, concVars, pullVars, stepVars,
                   flightVars, readVars, portVars, keyVars, postVars>>

\* GitManager.handle_username_change called by the server's username handler
UsernameChange(old_username, new_username) ==
    /\ backend \in {"GitManager", "GitStorage"}
    /\ calls < MaxCalls
    /\ LET change == handle_username_change(Snapshot, old_username, new_username,
                                            git_fails)
       IN /\ StoreBecomes(change.st)
          /\ storeResult' = [call |-> "rename", old |-> old_username,
                             new |-> new_username, returned |-> change.success]
    /\ calls' = calls + 1
    /\ UNCHANGED <<backend, use_github, git_fails, clock, last_pull_time>>
    /\ UNCHANGED <<archVars, mergeVars, listVars, concVars, pullVars, stepVars,
                   flightVars, readVars, portVars, keyVars, postVars>>

\* handle_username_change(old_username, new_username) with the file system
\* failing at os_error
UsernameChangeOsError(old_username, new_username, os_error) ==
    /\ backend \in {"GitManager", "GitStorage"}
    /\ calls < MaxCalls
    /\ LET change == handle_username_change_os(Snapshot, old_username, new_username,
                                               git_fails, os_error)
       IN /\ StoreBecomes(change.st)
          /\ storeResult' = [call |-> "rename", old |-> old_username,
                             new |-> new_username, returned |-> change.success]
    /\ calls' = calls + 1
    /\ UNCHANGED <<backend, use_github, git_fails, clock, last_pull_time>>
    /\ UNCHANGED <<archVars, mergeVars, listVars, concVars, pullVars, stepVars,
                   flightVars, readVars, portVars, keyVars, postVars>>

\* handle_verify_username (POST): answers whether the name is valid
VerifyUsername(username) ==
    /\ calls < MaxCalls
    /\ storeResult' = [call |-> "verify", username |-> username,
                       valid |-> verify_username(username)]
    /\ calls' = calls + 1
    /\ UNCHANGED <<backend, use_github, git_fails, clock, messages_dir, private_keys,
                   public_keys, keys_generated, last_pull_time, staged, committed, pushed>>
    /\ UNCHANGED <<archVars, mergeVars, listVars, concVars, pullVars, stepVars,
                   flightVars, readVars, portVars, keyVars, postVars>>

\* pull_from_github: origin/main is ahead by one message file, which
\* git pull --rebase brings into messages/
PullFromGithub(file) ==
    /\ backend = "GitManager"
    /\ calls < MaxCalls
    /\ pull_allowed
    /\ git_fails # "pull"
    /\ LegacyFileName \notin DOMAIN messages_dir
    /\ messages_dir' = Put(messages_dir, LegacyFileName, file)
    /\ staged' = Put(staged, MessagePath(LegacyFileName), file)
    /\ committed' = Put(committed, MessagePath(LegacyFileName), file)
    /\ pushed' = Put(pushed, MessagePath(LegacyFileName), file)
    /\ last_pull_time' = Some(clock)
    /\ storeResult' = [call |-> "pull"]
    /\ calls' = calls + 1
    /\ UNCHANGED <<backend, use_github, git_fails, clock, private_keys, public_keys,
                   keys_generated>>
    /\ UNCHANGED <<archVars, mergeVars, listVars, concVars, pullVars, stepVars,
                   flightVars, readVars, portVars, keyVars, postVars>>

\* a second of wall clock passes
Tick ==
    /\ clock < MaxClock
    /\ clock' = clock + 1
    /\ UNCHANGED <<backend, use_github, git_fails, messages_dir, private_keys, public_keys,
                   keys_generated, last_pull_time, staged, committed, pushed,
                   calls, storeResult>>
    /\ UNCHANGED <<archVars, mergeVars, listVars, concVars, pullVars, stepVars,
                   flightVars, readVars, portVars, keyVars, postVars>>

\* the failing git command works again
GitRecovers ==
    /\ git_fails # "none"
    /\ git_fails' = "none"
    /\ UNCHANGED <<backend, use_github, clock, messages_dir, private_keys, public_keys,
                   keys_generated, last_pull_time, staged, committed, pushed,
                   calls, storeResult>>
    /\ UNCHANGED <<archVars, mergeVars, listVars, concVars, pullVars, stepVars,
                   flightVars, readVars, portVars, keyVars, postVars>>

Next ==
    \/ \E req \in SaveRequests : GitManagerSave(req)
    \/ \E req \in SaveRequests : GitStorageSave(req)
    \/ \E req \in SaveRequests : FileStorageSave(req)
    \/ \E old \in Usernames, new \in RequestedNames : UsernameChange(old, new)
    \/ \E name \in VerifiedNames : VerifyUsername(name)
    \/ \E file \in LegacyFiles : PullFromGithub(file)
    \/ Tick
    \/ GitRecovers

Spec == StoreInit /\ [][Next]_vars

\* rename requests alone, each with or without a failing file operation
RenameNext ==
    \E old \in Usernames, new \in RequestedNames, os_error \in OsErrors :
        UsernameChangeOsError(old, new, os_error)

SpecRename == StoreInit /\ [][RenameNext]_vars

(***************************************************************************)
(* Claims about identities and the message store.                          *)
(***************************************************************************)
\* the step is a call of save_message / of handle_username_change
SaveStep == calls' = calls + 1 /\ storeResult'.call = "save"
RenameStep == calls' = calls + 1 /\ storeResult'.call = "rename"

\* the step is a save of a well-formed username-change message
RenameMessageStep ==
    /\ SaveStep
    /\ backend = "GitManager"
    /\ storeResult'.type = Some("username_change")
    /\ HasNewUsername(storeResult'.content)

\* C5: a rename request old -> new whose new username already has a public
\* key is rejected and changes no key file: neither the old username's pair
\* is removed nor the new username's pair replaced.
C5_RenameToTakenNameRejected ==
    [][/\ (RenameStep /\ storeResult'.new \in DOMAIN public_keys)
            => /\ storeResult'.returned = FALSE
               /\ UNCHANGED <<private_keys, public_keys>>
       /\ (RenameMessageStep /\ new_username_of(storeResult'.content) \in DOMAIN public_keys)
            => UNCHANGED <<private_keys, public_keys>>]_vars

\* C6: the content stored under a file name of messages/ never changes once
\* the file is there, whatever operation follows.
C6_MessageFilesImmutable ==
    [][\A f \in DOMAIN messages_dir :
          f \in DOMAIN messages_dir' /\ messages_dir'[f] = messages_dir[f]]_vars

\* the user's key pair was made by generate_keypair and both halves are there
HasGeneratedKeyPair(username) ==
    /\ username \in DOMAIN private_keys
    /\ username \in DOMAIN public_keys
    /\ private_keys[username] = public_keys[username]
    /\ private_keys[username] > 0

\* C7: a message that a user with a generated key pair has just saved with
\* sign=True is read back with verified = "true".
C7_SignedMessageReadsVerified ==
    (/\ backend = "GitManager"
     /\ storeResult.call = "save"
     /\ storeResult.sign
     /\ ~storeResult.raised
     /\ HasGeneratedKeyPair(storeResult.author))
        => read_message(messages_dir, public_keys, storeResult.filename)[1].verified = "true"

\* what the deployment's read and list operations return
ReturnedRecords ==
    IF backend = "GitManager"
    THEN {read_message(messages_dir, public_keys, f)[1] :
             f \in {n \in DOMAIN messages_dir :
                       read_message(messages_dir, public_keys, n) # NoValue}}
    ELSE IF backend = "GitStorage" THEN GitStorage_get_messages(messages_dir)
    ELSE FileStorage_get_messages(messages_dir)

\* the signature a file of messages/ carries, None when it carries none
SignatureOf(file) ==
    IF file.format = "footers" THEN Get(file.footers, "Signature")
    ELSE IF file.format = "json" THEN Get(file.data, "signature")
    ELSE NoValue

\* C8: every record returned with verified = "true" carries a signature that
\* is valid for the returned content under the public key of the returned
\* author; an unsigned file, a stored 'verified' field or a missing key never
\* gives verified = "true".
C8_VerifiedIsDerivedFromSignature ==
    \A r \in ReturnedRecords :
        r.verified = "true"
            => /\ SignatureOf(messages_dir[r.id]) # NoValue
               /\ r.author \in DOMAIN public_keys
               /\ verify_signature(r.content, SignatureOf(messages_dir[r.id])[1],
                                   public_keys[r.author])

\* C9: when a git command run by a save fails, the save still returns its
\* file name / True, raises nothing and has written the message file.
C9_SyncFailureNeverFailsSave ==
    (storeResult.call = "save" /\ storeResult.sync_failed)
        => /\ storeResult.returned
           /\ ~storeResult.raised
           /\ storeResult.filename \in DOMAIN messages_dir

\* C10: a save whose content is empty or only whitespace is rejected and
\* writes nothing: messages/, the key files and origin stay as they were.
C10_BlankContentRejected ==
    [][(SaveStep /\ strip(storeResult'.content) = Empty)
          => /\ ~storeResult'.returned
             /\ UNCHANGED <<messages_dir, private_keys, public_keys, pushed>>]_vars

\* the file is an error message written by "system" about the file parent
IsErrorMessage(file) ==
    /\ file.format = "footers"
    /\ Get(file.footers, "Author") = Some("system")
    /\ Get(file.footers, "Type") = Some("error")
    /\ Get(file.footers, "Parent-Message") # NoValue
ErrorMessageFor(dir, parent) ==
    \E g \in DOMAIN dir : IsErrorMessage(dir[g])
                          /\ Get(dir[g].footers, "Parent-Message") = Some(parent)

\* the step saves a username-change message whose rename has to fail: the
\* content is not an object with new_username, or the name is ill-formed or taken
FailingRenameMessageStep ==
    /\ SaveStep
    /\ backend = "GitManager"
    /\ storeResult'.type = Some("username_change")
    /\ \/ ~HasNewUsername(storeResult'.content)
       \/ /\ HasNewUsername(storeResult'.content)
          /\ \/ ~USERNAME_REGEX_match(new_username_of(storeResult'.content))
             \/ new_username_of(storeResult'.content) \in DOMAIN public_keys

\* C11: a username-change save whose rename fails leaves the original message
\* in messages/ together with an error message by "system" parented to it,
\* and an error message once written stays as it is through every later save.
C11_FailedRenameLeavesErrorMessage ==
    [][/\ FailingRenameMessageStep
            => /\ storeResult'.filename \in DOMAIN messages_dir'
               /\ messages_dir'[storeResult'.filename].body = rstrip(storeResult'.content)
               /\ ErrorMessageFor(messages_dir', storeResult'.filename)
       /\ \A f \in DOMAIN messages_dir :
             IsErrorMessage(messages_dir[f])
                => f \in DOMAIN messages_dir' /\ messages_dir'[f] = messages_dir[f]]_vars

\* the file names a caller may ask read_message for
ReadableNames == DOMAIN messages_dir \cup {".gitkeep", "missing.txt"}

\* C12: read_message returns None exactly for a name that is not in messages/,
\* for .gitkeep and for a file that is empty or blank; for every other file
\* of messages/ it returns a record.
C12_ReadReturnsNoneOnlyForMissingOrEmpty ==
    backend = "GitManager" =>
        \A n \in ReadableNames :
            read_message(messages_dir, public_keys, n) = NoValue
                <=> \/ n \notin DOMAIN messages_dir
                    \/ n = ".gitkeep"
                    \/ messages_dir[n].format = "blank"

\* C14: parsing what format_message wrote for a message gives back exactly
\* the content and the author and date that were saved, also for content
\* with leading or trailing whitespace and content that holds a "-- " line.
C14_FormatParseRoundTrip ==
    [][(/\ SaveStep
        /\ backend = "GitManager"
        /\ storeResult'.returned
        /\ storeResult'.type = NoValue)
          => LET parsed == parse_message(messages_dir'[storeResult'.filename])
             IN /\ parsed.message = storeResult'.content
                /\ parsed.metadata["Author"] = Some(storeResult'.author)
                /\ parsed.metadata["Date"] = Some(clock)]_vars


\* a username as the specification defines it: 3 to 20 characters, each a
\* letter, a digit or an underscore
WellFormedUsername(name) ==
    /\ NameLength(name) >= 3
    /\ NameLength(name) <= 20
    /\ \A i \in 1 .. NameLength(name) : Characters(name)[i] \in WordCharacters

\* C15: the verification answers valid exactly for well-formed usernames, and
\* a rename succeeds only towards a well-formed username: a name that is too
\* short, holds "/" or ends with a line feed is refused by both.
C15_UsernameFormat ==
    /\ storeResult.call = "verify"
          => (storeResult.valid <=> WellFormedUsername(storeResult.username))
    /\ (storeResult.call = "rename" /\ storeResult.returned)
          => WellFormedUsername(storeResult.new)


PublishedPaths == DOMAIN staged \cup DOMAIN committed \cup DOMAIN pushed
KeyNames == Usernames \cup RequestedNames \cup {"local"}

\* C17: whatever operations have run, no private key file is staged,
\* committed or pushed: every path given to git is a file of messages/ or a
\* public key file.
C17_PrivateKeysNeverPublished ==
    \A p \in PublishedPaths :
        /\ p \notin {get_private_key_path(n) : n \in KeyNames}
        /\ \/ \E f \in DOMAIN messages_dir : p = MessagePath(f)
           \/ \E n \in KeyNames : p = KeyPath(n)

\* C17 witness: a rename generated a private key for the new name and its
\* public key was pushed; a signed message was published before it.
C17_Witness ==
    /\ use_github
    /\ storeResult.call = "rename"
    /\ storeResult.returned
    /\ storeResult.new \in DOMAIN private_keys
    /\ KeyPath(storeResult.new) \in DOMAIN pushed
    /\ \E f \in DOMAIN messages_dir : MessagePath(f) \in DOMAIN pushed


\* the author has both halves of a key pair
HasKeyPair(username) ==
    username \in DOMAIN private_keys /\ username \in DOMAIN public_keys

\* C19: a saved message carries a signature exactly when sign was requested
\* and the author had a key pair at save time, the signature is then made
\* with the author's private key, and a save with sign=True by an author
\* without a key pair succeeds and stores the message unsigned.
C19_SignedIffRequestedAndKeyPair ==
    [][(/\ SaveStep
        /\ backend \in {"GitManager", "GitStorage"}
        /\ storeResult'.type = NoValue)
          => /\ (storeResult'.sign /\ ~HasKeyPair(storeResult'.author))
                  => storeResult'.returned
             /\ storeResult'.returned
                  => LET file == messages_dir'[storeResult'.filename]
                     IN /\ SignatureOf(file) # NoValue
                            <=> (storeResult'.sign /\ HasKeyPair(storeResult'.author))
                        /\ SignatureOf(file) # NoValue
                            => SignatureOf(file)[1].key = private_keys[storeResult'.author]]_vars


\* C20: the record read for a message that carries no signature reports its
\* verification as not applicable, a value that is neither "true" nor the
\* "false" reported for a signature that does not verify.
C20_UnsignedReadsNotApplicable ==
    backend = "GitManager"
        => \A f \in DOMAIN messages_dir :
              LET record == read_message(messages_dir, public_keys, f)
              IN (record # NoValue /\ SignatureOf(messages_dir[f]) = NoValue)
                    => record[1].verified \notin {"true", "false"}


\* the step is a save of a plain message by GitManager that reports success
PlainSaveStep ==
    /\ SaveStep
    /\ backend = "GitManager"
    /\ storeResult'.type = NoValue
    /\ storeResult'.returned

\* C21: every successful save of a plain message adds exactly one new file
\* to messages/, named <timestamp>_<author>.txt, and the file reads back with
\* the content and the author it was saved with.
C21_SaveAddsOneNewFile ==
    [][PlainSaveStep
         => /\ storeResult'.filename = MessageFileName(clock, storeResult'.author)
            /\ storeResult'.filename \notin DOMAIN messages_dir
            /\ DOMAIN messages_dir' = DOMAIN messages_dir \cup {storeResult'.filename}
            /\ LET record == read_message(messages_dir', public_keys', storeResult'.filename)
               IN /\ record # NoValue
                  /\ record[1].author = storeResult'.author]_vars

\* the step is a save that reports failure: it returns False or raises
FailedSaveStep ==
    /\ SaveStep
    /\ (~storeResult'.returned \/ storeResult'.raised)

\* C35: a save that reports failure (returns False or raises) leaves messages/
\* as it was, so that no later list or read returns its message; also when the
\* failure comes after the file write, at git add or git commit.
C35_FailedSaveLeavesNoFile ==
    [][FailedSaveStep => messages_dir' = messages_dir]_vars

\* C28: after a rename old -> new that ends in Applied, new has a public and
\* a private key file, both freshly generated, and old (when it is another
\* name than new) has neither; for every pair of names, also old = new and
\* an old identity that has a private key but no public key.
C28_AppliedRenameMovesTheKeys ==
    [][(RenameStep /\ storeResult'.returned)
         => /\ storeResult'.new \in DOMAIN private_keys'
            /\ storeResult'.new \in DOMAIN public_keys'
            /\ IF /\ storeResult'.new \in DOMAIN private_keys'
                  /\ storeResult'.new \in DOMAIN public_keys'
               THEN /\ private_keys'[storeResult'.new] > keys_generated
                    /\ public_keys'[storeResult'.new] > keys_generated
               ELSE FALSE
            /\ storeResult'.old # storeResult'.new
                 => /\ storeResult'.old \notin DOMAIN private_keys'
                    /\ storeResult'.old \notin DOMAIN public_keys']_vars

\* the step is one call of sync_changes_to_github: an applied rename (the new
\* public key) or a successful save of a plain message by GitManager
PushStep == (RenameStep /\ storeResult'.returned) \/ PlainSaveStep

\* the path the step hands to sync_changes_to_github, whether the file is
\* there and what it holds
PushedPath ==
    IF storeResult'.call = "rename" THEN KeyPath(storeResult'.new)
    ELSE MessagePath(storeResult'.filename)
PushedFileExists ==
    IF storeResult'.call = "rename" THEN storeResult'.new \in DOMAIN public_keys'
    ELSE storeResult'.filename \in DOMAIN messages_dir'
PushedBlob ==
    IF storeResult'.call = "rename" THEN public_keys'[storeResult'.new]
    ELSE messages_dir'[storeResult'.filename]

\* git add of the path changes the index with respect to HEAD
PushedPathHasChanges ==
    IF PushedPath \in DOMAIN committed THEN committed[PushedPath] # PushedBlob ELSE TRUE

\* C32: sync_changes_to_github stages only the path it is given, and commits
\* and pushes only when staging that path produced changes: with remote sync
\* disabled or without the file nothing is staged, committed or pushed, and
\* with a path that has no changes there is no commit and no push.
C32_PushStagesOnePath ==
    [][PushStep
         => /\ \A p \in DOMAIN staged :
                  p \in DOMAIN staged' /\ (p # PushedPath => staged'[p] = staged[p])
            /\ DOMAIN staged' \subseteq DOMAIN staged \cup {PushedPath}
            /\ (~use_github \/ ~PushedFileExists) => UNCHANGED <<staged, committed, pushed>>
            /\ (committed' # committed \/ pushed' # pushed)
                  => /\ use_github
                     /\ IF PushedFileExists THEN PushedPathHasChanges ELSE FALSE]_vars

\* C32 witness: with remote sync enabled a plain message has been saved and
\* its file staged, committed and pushed next to the key published before.
C32_Witness ==
    /\ storeResult.call = "save"
    /\ backend = "GitManager"
    /\ use_github
    /\ storeResult.type = NoValue
    /\ storeResult.returned
    /\ MessagePath(storeResult.filename) \in DOMAIN pushed
    /\ Cardinality(DOMAIN pushed) > 1

\* C29: every rename request ends in Applied or in Rejected, and when it is
\* Rejected no key file of any name has been created, overwritten or deleted.
C29_RejectedRenameChangesNoKey ==
    [][RenameStep
         => /\ storeResult'.returned \in BOOLEAN
            /\ ~storeResult'.returned => UNCHANGED <<private_keys, public_keys>>]_vars


(***************************************************************************)
(* save_message calls of different authors running at the same time, as    *)
(* the threads of ThreadingHTTPServer run them, all within one second.      *)
(* A call is a sequence of steps: the write of the message file, then the   *)
(* git commands.  git add and git commit create .git/index.lock when they   *)
(* start and remove it when they exit; a git command that finds the lock    *)
(* exits non-zero at once.                                                  *)
(***************************************************************************)
Savers == {"anonymous", "alice", "bob"}
ConcSecond == 0

\* what each author saves
ConcContent(author) == <<author>>

\* the file the call writes: format_message(...) for GitManager,
\* json.dump(message_data) for GitStorage
ConcFile(storage, author) ==
    IF storage = "GitManager"
    THEN format_message(ConcContent(author), author, ConcSecond, NoValue, NoValue, NoValue)
    ELSE json_file([k \in {"author", "content", "timestamp"} |->
                       IF k = "author" THEN <<author>>
                       ELSE IF k = "content" THEN <<ConcContent(author)>>
                       ELSE <<ConcSecond>>])

\* what a call returns: GitManager.save_message the file name, whatever git
\* did; GitStorage.save_message True, or False when a git command failed
ConcReturn(storage, author, git_ok) ==
    IF storage = "GitManager"
    THEN Some([success |-> TRUE, value |-> MessageFileName(ConcSecond, author)])
    ELSE Some([success |-> git_ok, value |-> IF git_ok THEN "True" ELSE "False"])

ConcInit ==
    /\ conc_backend \in {"GitManager", "GitStorage"}
    /\ pc = [a \in Savers |-> "start"]
    /\ conc_dir = << >>
    /\ index_lock = NoValue
    /\ conc_staged = {}
    /\ conc_committed = {}
    /\ conc_returned = [a \in Savers |-> NoValue]
    /\ ArchiveIdle
    /\ MergeIdle
    /\ StoreIdle
    /\ ListIdle
    /\ PullIdle
    /\ StepIdle
    /\ FlightIdle
    /\ ReadIdle
    /\ PortIdle
    /\ KeyIdle
    /\ PostIdle

\* filepath.write_text(formatted_message) / json.dump(message_data, f)
ConcWriteFile(a) ==
    /\ pc[a] = "start"
    /\ conc_dir' = Put(conc_dir, MessageFileName(ConcSecond, a), ConcFile(conc_backend, a))
    /\ pc' = [pc EXCEPT ![a] = "written"]
    /\ UNCHANGED <<conc_backend, index_lock, conc_staged, conc_committed, conc_returned>>
    /\ UNCHANGED <<archVars, mergeVars, storeVars, listVars, pullVars, stepVars,
                   flightVars, readVars, portVars, keyVars, postVars>>

\* a git command of the call starts while another holds the lock: it exits
\* non-zero; sync_changes_to_github logs CalledProcessError and save_message
\* returns the file name, GitStorage.save_message returns False
ConcGitFails(a) ==
    /\ pc[a] \in {"written", "added"}
    /\ index_lock # NoValue
    /\ pc' = [pc EXCEPT ![a] = "done"]
    /\ conc_returned' = [conc_returned EXCEPT ![a] = ConcReturn(conc_backend, a, FALSE)]
    /\ UNCHANGED <<conc_backend, conc_dir, index_lock, conc_staged, conc_committed>>
    /\ UNCHANGED <<archVars, mergeVars, storeVars, listVars, pullVars, stepVars,
                   flightVars, readVars, portVars, keyVars, postVars>>

\* git add <path> starts
ConcGitAdd(a) ==
    /\ pc[a] = "written"
    /\ index_lock = NoValue
    /\ index_lock' = Some(a)
    /\ pc' = [pc EXCEPT ![a] = "adding"]
    /\ UNCHANGED <<conc_backend, conc_dir, conc_staged, conc_committed, conc_returned>>
    /\ UNCHANGED <<archVars, mergeVars, storeVars, listVars, pullVars, stepVars,
                   flightVars, readVars, portVars, keyVars, postVars>>

\* git add <path> exits
ConcGitAddExits(a) ==
    /\ pc[a] = "adding"
    /\ conc_staged' = conc_staged \cup {MessagePath(MessageFileName(ConcSecond, a))}
    /\ index_lock' = NoValue
    /\ pc' = [pc EXCEPT ![a] = "added"]
    /\ UNCHANGED <<conc_backend, conc_dir, conc_committed, conc_returned>>
    /\ UNCHANGED <<archVars, mergeVars, storeVars, listVars, pullVars, stepVars,
                   flightVars, readVars, portVars, keyVars, postVars>>

\* GitManager: git status --porcelain <path> is empty, another call's commit
\* took the path with it; sync_changes_to_github returns
ConcNothingToCommit(a) ==
    /\ pc[a] = "added"
    /\ conc_backend = "GitManager"
    /\ MessagePath(MessageFileName(ConcSecond, a)) \in conc_committed
    /\ pc' = [pc EXCEPT ![a] = "done"]
    /\ conc_returned' = [conc_returned EXCEPT ![a] = ConcReturn(conc_backend, a, TRUE)]
    /\ UNCHANGED <<conc_backend, conc_dir, index_lock, conc_staged, conc_committed>>
    /\ UNCHANGED <<archVars, mergeVars, storeVars, listVars, pullVars, stepVars,
                   flightVars, readVars, portVars, keyVars, postVars>>

\* git commit starts
ConcGitCommit(a) ==
    /\ pc[a] = "added"
    /\ conc_backend = "GitManager"
          => MessagePath(MessageFileName(ConcSecond, a)) \notin conc_committed
    /\ index_lock = NoValue
    /\ index_lock' = Some(a)
    /\ pc' = [pc EXCEPT ![a] = "committing"]
    /\ UNCHANGED <<conc_backend, conc_dir, conc_staged, conc_committed, conc_returned>>
    /\ UNCHANGED <<archVars, mergeVars, storeVars, listVars, pullVars, stepVars,
                   flightVars, readVars, portVars, keyVars, postVars>>

\* git commit exits: "git commit -m" of GitManager commits the whole index,
\* "git commit <path> -m" of GitStorage the path; the call returns
ConcGitCommitExits(a) ==
    /\ pc[a] = "committing"
    /\ conc_committed' = IF conc_backend = "GitManager" THEN conc_committed \cup conc_staged
                         ELSE conc_committed \cup {MessagePath(MessageFileName(ConcSecond, a))}
    /\ index_lock' = NoValue
    /\ pc' = [pc EXCEPT ![a] = "done"]
    /\ conc_returned' = [conc_returned EXCEPT ![a] = ConcReturn(conc_backend, a, TRUE)]
    /\ UNCHANGED <<conc_backend, conc_dir, conc_staged>>
    /\ UNCHANGED <<archVars, mergeVars, storeVars, listVars, pullVars, stepVars,
                   flightVars, readVars, portVars, keyVars, postVars>>

ConcNext ==
    \E a \in Savers :
        \/ ConcWriteFile(a)
        \/ ConcGitFails(a)
        \/ ConcGitAdd(a)
        \/ ConcGitAddExits(a)
        \/ ConcNothingToCommit(a)
        \/ ConcGitCommit(a)
        \/ ConcGitCommitExits(a)

SpecConcurrentSave == ConcInit /\ [][ConcNext]_vars

\* C22: when save calls of different authors have run concurrently within
\* one second, in whatever interleaving, each has succeeded and each
\* author's file is in messages/ with that author's content.
C22_ConcurrentSavesAllSucceed ==
    \A a \in Savers :
        pc[a] = "done"
            => /\ conc_returned[a][1].success
               /\ MessageFileName(ConcSecond, a) \in DOMAIN conc_dir
               /\ conc_dir[MessageFileName(ConcSecond, a)] = ConcFile(conc_backend, a)


(***************************************************************************)
(* Pulls: GitManager.pull_from_github with GitManager.sync_forks, and the   *)
(* script sync_forks.main.  A fork URL is https://github.com/<owner>/<repo>;*)
(* its text is a sequence of pieces so that "name in url" can be computed.  *)
(* Whether a fork can be reached, and which git command of the pull fails,  *)
(* is the environment's choice at each call.                                *)
(***************************************************************************)
MaxElapsed == 6
MaxCommits == 2

\* time.time() when the server starts: far more than pull_cooldown after 0
StartTime == pull_cooldown

ForkUrl(owner) == [owner |-> owner, repo |-> "bookchat"]
url_text(url) == <<"https:", "/", "/", "github.com", "/">> \o url.owner \o <<"/", url.repo>>

\* GITHUB_REPO, the name of the current origin
repo_name == <<"alice", "/", "bookchat">>
OriginUrl == ForkUrl(<<"alice">>)
MaliceUrl == ForkUrl(<<"m", "alice">>)
CarolUrl == ForkUrl(<<"carol">>)
BobUrl == ForkUrl(<<"bob">>)

\* forks_list.txt: absent or empty, or the forks found
ForkLists == {<< >>, <<BobUrl>>, <<OriginUrl, MaliceUrl, CarolUrl, BobUrl>>}
\* the forks that cannot be reached during a call
Unreachable == {{}, {CarolUrl}}
\* the git command of pull_from_github that exits non-zero
PullCommands == {"none", "fetch", "rev-list", "pull"}

\* name in text
Contains(text, name) ==
    \E k \in 0 .. Len(text) - Len(name) :
        \A j \in 1 .. Len(name) : text[k + j] = name[j]

\* repos = [repo for repo in repos if self.repo_name not in repo]
filter_current_repo(repos) ==
    LET Kept(url) == ~Contains(url_text(url), repo_name)
    IN SelectSeq(repos, Kept)

\* get_unique_repo_name(repo_url): <username>_<repo name>
get_unique_repo_name(repo_url) == <<repo_url.owner, repo_url.repo>>

\* clone_or_update_repo(repo_url, "messages"): clone when the directory is
\* absent, else pull.  run_command logs a failing git command; after a
\* failed clone the next command runs in the missing directory and
\* subprocess.run raises FileNotFoundError
clone_or_update_repo(cloned, repo_url, down) ==
    IF get_unique_repo_name(repo_url) \notin cloned
    THEN IF repo_url \in down
         THEN [cloned |-> cloned, raised |-> TRUE]
         ELSE [cloned |-> cloned \cup {get_unique_repo_name(repo_url)}, raised |-> FALSE]
    ELSE [cloned |-> cloned, raised |-> FALSE]

\* GitManager.sync_forks: every call is inside try/except Exception
RECURSIVE GitManager_sync_forks(_, _, _)
GitManager_sync_forks(st, repos, down) ==
    IF repos = << >> THEN st
    ELSE LET one == clone_or_update_repo(st.cloned, Head(repos), down)
         IN GitManager_sync_forks([cloned |-> one.cloned,
                                   processed |-> st.processed \cup {Head(repos)},
                                   raised |-> FALSE],
                                  Tail(repos), down)

\* the loop of sync_forks.main: an exception leaves the loop and main
RECURSIVE main_loop(_, _, _)
main_loop(st, repos, down) ==
    IF repos = << >> THEN st
    ELSE LET one == clone_or_update_repo(st.cloned, Head(repos), down)
             next == [cloned |-> one.cloned,
                      processed |-> st.processed \cup {Head(repos)},
                      raised |-> one.raised]
         IN IF one.raised THEN next ELSE main_loop(next, Tail(repos), down)

PullInit ==
    /\ gm_use_github \in BOOLEAN
    /\ now = StartTime
    /\ gm_last_pull_time = 0
    /\ origin_main \in 0 .. 1
    /\ tracking_main = 0
    /\ local_main = 0
    /\ cloned_repos = {}
    /\ last_contact = NoValue
    /\ pullResult = [call |-> "init"]
    /\ ArchiveIdle
    /\ MergeIdle
    /\ StoreIdle
    /\ ListIdle
    /\ ConcIdle
    /\ StepIdle
    /\ FlightIdle
    /\ ReadIdle
    /\ PortIdle
    /\ KeyIdle
    /\ PostIdle

\* mutant: the count is never '0'
rev_list_count_never_zero(head, origin_main_ref) == 1

\* git rev-list HEAD..origin/main --count: the commits of the tracking branch
\* that the local branch does not have
rev_list_count(head, origin_main_ref) == origin_main_ref - head

PullOutcome(returned, ran_git, rebased, failed, synced, forks_list, down) ==
    [call |-> "pull", returned |-> returned, ran_git |-> ran_git, rebased |-> rebased,
     failed |-> failed, at |-> now, previous_contact |-> last_contact,
     behind |-> origin_main - local_main, local_before |-> local_main,
     forks_list |-> forks_list, down |-> down, processed |-> synced.processed,
     raised |-> FALSE]

\* GitManager.pull_from_github(); fail is the git command that exits with an
\* error when it is run
\* (a git pull --rebase that stops, on a conflict or a failed fetch, leaves
\* refs/heads/main where it was)
PullFromGithubCall(fail, forks_list, down) ==
    /\ UNCHANGED <<archVars, mergeVars, storeVars, listVars, concVars, stepVars,
                   flightVars, readVars, portVars, keyVars, postVars>>
    /\ LET nothing == [cloned |-> cloned_repos, processed |-> {}, raised |-> FALSE]
           synced == GitManager_sync_forks(nothing, filter_current_repo(forks_list), down)
       IN IF ~gm_use_github \/ now - gm_last_pull_time < pull_cooldown
          THEN /\ pullResult' = PullOutcome(FALSE, FALSE, FALSE, FALSE, nothing, << >>, {})
               /\ UNCHANGED <<gm_use_github, now, gm_last_pull_time, origin_main, tracking_main,
                              local_main, cloned_repos, last_contact>>
          ELSE /\ cloned_repos' = synced.cloned
               /\ last_contact' = Some(now)
               /\ tracking_main' = IF fail = "fetch" THEN tracking_main ELSE origin_main
               /\ IF fail \in {"fetch", "rev-list"}
                  THEN /\ pullResult' = PullOutcome(FALSE, TRUE, FALSE, TRUE, synced,
                                                    forks_list, down)
                       /\ UNCHANGED <<local_main, gm_last_pull_time>>
                  ELSE IF rev_list_count(local_main, origin_main) = 0
                  THEN /\ pullResult' = PullOutcome(FALSE, TRUE, FALSE, FALSE, synced,
                                                    forks_list, down)
                       /\ UNCHANGED <<local_main, gm_last_pull_time>>
                  ELSE IF fail = "pull"
                  THEN /\ pullResult' = PullOutcome(FALSE, TRUE, FALSE, TRUE, synced,
                                                    forks_list, down)
                       /\ UNCHANGED <<local_main, gm_last_pull_time>>
                  ELSE /\ local_main' = origin_main
                       /\ gm_last_pull_time' = now
                       /\ pullResult' = PullOutcome(TRUE, TRUE, TRUE, FALSE, synced,
                                                    forks_list, down)
               /\ UNCHANGED <<gm_use_github, now, origin_main>>

\* python sync_forks.py: main() up to copy_messages_to_main
SyncForksMain(forks_list, down) ==
    LET done == main_loop([cloned |-> cloned_repos, processed |-> {}, raised |-> FALSE],
                          filter_current_repo(forks_list), down)
    IN /\ cloned_repos' = done.cloned
       /\ pullResult' = [call |-> "main", forks_list |-> forks_list, down |-> down,
                         processed |-> done.processed, raised |-> done.raised]
       /\ UNCHANGED <<gm_use_github, now, gm_last_pull_time, origin_main, tracking_main,
                      local_main, last_contact>>
       /\ UNCHANGED <<archVars, mergeVars, storeVars, listVars, concVars, stepVars,
                      flightVars, readVars, portVars, keyVars, postVars>>

\* a second passes
PullTick ==
    /\ now < StartTime + MaxElapsed
    /\ now' = now + 1
    /\ UNCHANGED <<gm_use_github, gm_last_pull_time, origin_main, tracking_main, local_main,
                   cloned_repos, last_contact, pullResult>>
    /\ UNCHANGED <<archVars, mergeVars, storeVars, listVars, concVars, stepVars,
                   flightVars, readVars, portVars, keyVars, postVars>>

\* somebody pushes a commit to main of the origin
OriginAdvances ==
    /\ origin_main < MaxCommits
    /\ origin_main' = origin_main + 1
    /\ UNCHANGED <<gm_use_github, now, gm_last_pull_time, tracking_main, local_main,
                   cloned_repos, last_contact, pullResult>>
    /\ UNCHANGED <<archVars, mergeVars, storeVars, listVars, concVars, stepVars,
                   flightVars, readVars, portVars, keyVars, postVars>>

PullNext ==
    \/ \E fail \in PullCommands, forks_list \in ForkLists, down \in Unreachable :
          PullFromGithubCall(fail, forks_list, down)
    \/ \E forks_list \in ForkLists, down \in Unreachable : SyncForksMain(forks_list, down)
    \/ PullTick
    \/ OriginAdvances

SpecPull == PullInit /\ [][PullNext]_vars

\* C23: a pull that runs git commands on a remote starts at least
\* pull_cooldown seconds after the previous call that did; a call made
\* within the cooldown of the previous remote contact returns False and runs
\* no git command, whether or not that previous call found new commits.
C23_PullsAreRateLimited ==
    (pullResult.call = "pull" /\ pullResult.previous_contact # NoValue)
        => IF pullResult.at - pullResult.previous_contact[1] < pull_cooldown
           THEN ~pullResult.returned /\ ~pullResult.ran_git
           ELSE TRUE


\* the fork URLs of a list that are not the current origin
ForksToSync(forks_list) == {forks_list[i] : i \in DOMAIN forks_list} \ {OriginUrl}

\* C24: a fork sync, by GitManager.sync_forks or by sync_forks.main,
\* processes every fork URL of the list except the current origin, also when
\* cloning one of them fails, and raises nothing; every fork that could be
\* reached has its clone afterwards.
C24_EveryForkIsProcessed ==
    (pullResult.call = "main" \/ (pullResult.call = "pull" /\ pullResult.ran_git))
        => /\ pullResult.processed = ForksToSync(pullResult.forks_list)
           /\ ~pullResult.raised
           /\ \A url \in ForksToSync(pullResult.forks_list) \ pullResult.down :
                 get_unique_repo_name(url) \in cloned_repos

\* C30: a pull runs the rebase only when the local branch is behind the
\* remote tracking branch, and returns True exactly when it did; when the
\* local branch is not behind, when synchronisation is disabled or when a git
\* command fails it returns False and the local branch is as it was.
C30_RebaseOnlyWhenBehind ==
    pullResult.call = "pull"
        => /\ pullResult.rebased => tracking_main > pullResult.local_before
           /\ pullResult.returned <=> pullResult.rebased
           /\ (\/ (pullResult.ran_git /\ ~pullResult.failed
                      /\ tracking_main <= pullResult.local_before)
               \/ ~gm_use_github
               \/ pullResult.failed) => ~pullResult.returned
           /\ ~pullResult.returned => local_main = pullResult.local_before

\* C30 witness: a pull has found the local branch behind, rebased it onto the
\* tracking branch and returned True.
C30_Witness ==
    /\ pullResult.call = "pull"
    /\ pullResult.returned
    /\ pullResult.rebased
    /\ local_main > pullResult.local_before
    /\ local_main = tracking_main


(***************************************************************************)
(* MessageArchiver.archive_messages taken statement by statement, with     *)
(* SQLiteStorage.save_message of other request threads running between     *)
(* its statements.  The SELECT, the writing of the bundle and the DELETE   *)
(* each open their own connection; every statement commits by itself.      *)
(***************************************************************************)

\* messages = self.get_messages_to_archive(reference_time); if not messages:
\* return None
\* the archive calls of a behaviour that are taken statement by statement
MaxStepCalls == 2

ArchiveSelect(reference_time) ==
    /\ arch_pc = "idle"
    /\ arch_calls < MaxStepCalls
    /\ LET messages == get_messages_to_archive(db, reference_time)
       IN IF messages = {}
          THEN /\ archResult' = [call |-> "archive", ok |-> TRUE, path |-> NoValue]
               /\ archivedAt' = Some(reference_time)
               /\ UNCHANGED stepVars
          ELSE /\ arch_pc' = "selected"
               /\ arch_messages' = messages
               /\ arch_reference' = reference_time
               /\ arch_calls' = arch_calls + 1
               /\ UNCHANGED <<archResult, archivedAt, arch_bundles>>
    /\ UNCHANGED <<db, archives, last_archive_time, total_archives_created,
                   total_messages_archived, total_bytes_archived, nextId, saved>>
    /\ UNCHANGED <<mergeVars, storeVars, listVars, concVars, pullVars, flightVars,
                   readVars, portVars, keyVars, postVars>>

\* with zipfile.ZipFile(archive_path, 'w', ...) as zf: ...; then the metrics
ArchiveWriteBundle ==
    /\ arch_pc = "selected"
    /\ archives' = write_archive(archives, archive_name(arch_messages), arch_messages)
    /\ last_archive_time' = Some(total_archives_created + 1)
    /\ total_archives_created' = total_archives_created + 1
    /\ total_messages_archived' = total_messages_archived + Cardinality(arch_messages)
    /\ total_bytes_archived' = total_bytes_archived + archive_size(arch_messages)
    /\ arch_pc' = "written"
    /\ arch_bundles' = arch_bundles + 1
    /\ UNCHANGED arch_calls
    /\ UNCHANGED <<db, nextId, saved, archResult, archivedAt, arch_messages, arch_reference>>
    /\ UNCHANGED <<mergeVars, storeVars, listVars, concVars, pullVars, flightVars,
                   readVars, portVars, keyVars, postVars>>

\* conn.execute("DELETE FROM messages WHERE datetime(timestamp) < datetime(?)");
\* conn.commit(); return str(archive_path)
ArchiveDelete ==
    /\ arch_pc = "written"
    /\ db' = db \ rows_to_delete(db, arch_reference)
    /\ archResult' = [call |-> "archive", ok |-> TRUE,
                      path |-> Some(archive_name(arch_messages))]
    /\ archivedAt' = Some(arch_reference)
    /\ arch_pc' = "idle"
    /\ arch_messages' = {}
    /\ arch_reference' = 0
    /\ UNCHANGED <<arch_bundles, arch_calls>>
    /\ UNCHANGED <<archives, last_archive_time, total_archives_created,
                   total_messages_archived, total_bytes_archived, nextId, saved>>
    /\ UNCHANGED <<mergeVars, storeVars, listVars, concVars, pullVars, flightVars,
                   readVars, portVars, keyVars, postVars>>

\* the with block of zipfile.ZipFile raises (archives/ cannot be written, the disk is
\* full): archive_messages ends there.  When the file had been opened, mode 'w' has
\* created or truncated it and it holds no readable messages.json
ArchiveWriteFails(opened) ==
    /\ arch_pc = "selected"
    /\ archives' = IF opened THEN write_archive(archives, archive_name(arch_messages), {})
                   ELSE archives
    /\ archResult' = [call |-> "archive", ok |-> FALSE, path |-> NoValue]
    /\ arch_pc' = "idle"
    /\ arch_messages' = {}
    /\ arch_reference' = 0
    /\ UNCHANGED <<arch_bundles, arch_calls>>
    /\ UNCHANGED <<db, last_archive_time, total_archives_created, total_messages_archived,
                   total_bytes_archived, nextId, saved, archivedAt>>
    /\ UNCHANGED <<mergeVars, storeVars, listVars, concVars, pullVars, flightVars,
                   readVars, portVars, keyVars, postVars>>

\* the DELETE or its commit raises (sqlite3.OperationalError: database is locked):
\* archive_messages ends there, after the bundle and the metrics
ArchiveDeleteFails ==
    /\ arch_pc = "written"
    /\ archResult' = [call |-> "archive", ok |-> FALSE, path |-> NoValue]
    /\ arch_pc' = "idle"
    /\ arch_messages' = {}
    /\ arch_reference' = 0
    /\ UNCHANGED <<arch_bundles, arch_calls>>
    /\ UNCHANGED <<db, archives, last_archive_time, total_archives_created,
                   total_messages_archived, total_bytes_archived, nextId, saved, archivedAt>>
    /\ UNCHANGED <<mergeVars, storeVars, listVars, concVars, pullVars, flightVars,
                   readVars, portVars, keyVars, postVars>>

ArchiveStepsNext ==
    \/ \E ts \in TimeStamps : SQLiteSaveMessage(ts)
    \/ \E t \in ReferenceTimes : ArchiveSelect(t)
    \/ ArchiveWriteBundle
    \/ \E opened \in BOOLEAN : ArchiveWriteFails(opened)
    \/ ArchiveDelete
    \/ ArchiveDeleteFails

SpecArchiveSteps == ArchiveInit /\ [][ArchiveStepsNext]_vars

\* C25: selection and deletion of an archive call act as one unit even when
\* a save runs between them: every message the call removes from the active
\* storage is in the bundle the call wrote, so a message written during the
\* call is not deleted without being bundled.
C25_DeletesOnlyWhatItBundled ==
    [][(arch_pc = "written" /\ arch_pc' = "idle") => (db \ db') \subseteq arch_messages]_vars


\* C36: a message is deleted from the active storage only after the bundle that
\* contains it has been written; a call whose bundle write fails deletes no
\* message; and at no point of a call, a failure at any step included, is a
\* selected message in neither the active storage nor a bundle.
C36_BundleBeforeDelete ==
    [][/\ (db \ db') \subseteq Archived'
       /\ (arch_pc = "selected" /\ arch_pc' = "idle") => db' = db
       /\ arch_pc # "idle" => arch_messages \subseteq (db' \cup Archived')]_vars

\* Rows leave the database only by the DELETE of an archive call, which comes after
\* the call's bundle: saved \ db are the rows removed by the calls that wrote a bundle.
\* C37: on one archiver, after any sequence of archive calls, failing ones
\* included, total_archives_created is the number of calls that wrote a bundle,
\* total_messages_archived is the number of messages those calls removed from the
\* active storage, and no counter ever decreases.
C37_CountersMatchTheCalls ==
    [][/\ total_archives_created' = arch_bundles'
       /\ arch_pc' = "idle" => total_messages_archived' = Cardinality(saved' \ db')
       /\ total_archives_created' >= total_archives_created
       /\ total_messages_archived' >= total_messages_archived
       /\ total_bytes_archived' >= total_bytes_archived]_vars


(***************************************************************************)
(* GitManager.pull_from_github called by several request threads of one    *)
(* process (ThreadingHTTPServer; read_message pulls first), taken statement *)
(* by statement.  The method takes no lock.                                 *)
(***************************************************************************)
PullThreads == {"T1", "T2"}

\* the statements at which a thread works on a remote
RemoteOperations == {"sync_forks", "fetch", "rebase"}

FlightInit ==
    /\ gm_use_github = TRUE
    /\ now = StartTime
    /\ gm_last_pull_time = 0
    /\ origin_main \in 0 .. 1
    /\ tracking_main = 0
    /\ local_main = 0
    /\ cloned_repos = {}
    /\ last_contact = NoValue
    /\ pullResult = [call |-> "init"]
    /\ pull_pc = [t \in PullThreads |-> "idle"]
    /\ pull_time = [t \in PullThreads |-> 0]
    /\ pull_returned = [t \in PullThreads |-> NoValue]
    /\ ArchiveIdle
    /\ MergeIdle
    /\ StoreIdle
    /\ ListIdle
    /\ ConcIdle
    /\ StepIdle
    /\ ReadIdle
    /\ PortIdle
    /\ KeyIdle
    /\ PostIdle

\* the thread's call returns
FlightReturn(t, value) ==
    /\ pull_pc' = [pull_pc EXCEPT ![t] = "idle"]
    /\ pull_returned' = [pull_returned EXCEPT ![t] = Some(value)]

\* the thread goes on to the next statement
FlightGoto(t, statement) ==
    /\ pull_pc' = [pull_pc EXCEPT ![t] = statement]
    /\ UNCHANGED pull_returned

\* if not self.use_github: return False; current_time = time.time();
\* if current_time - self.last_pull_time < self.pull_cooldown: return False
FlightEnter(t) ==
    /\ pull_pc[t] = "idle"
    /\ pull_time' = [pull_time EXCEPT ![t] = now]
    /\ IF ~gm_use_github \/ now - gm_last_pull_time < pull_cooldown
       THEN FlightReturn(t, FALSE)
       ELSE FlightGoto(t, "sync_forks")
    /\ UNCHANGED pullVars
    /\ UNCHANGED <<archVars, mergeVars, storeVars, listVars, concVars, stepVars,
                   readVars, portVars, keyVars, postVars>>

\* self.sync_forks()
FlightSyncForks(t, forks_list) ==
    /\ pull_pc[t] = "sync_forks"
    /\ cloned_repos' =
          GitManager_sync_forks([cloned |-> cloned_repos, processed |-> {}, raised |-> FALSE],
                                filter_current_repo(forks_list), {}).cloned
    /\ FlightGoto(t, "fetch")
    /\ UNCHANGED <<gm_use_github, now, gm_last_pull_time, origin_main, tracking_main,
                   local_main, last_contact, pullResult, pull_time>>
    /\ UNCHANGED <<archVars, mergeVars, storeVars, listVars, concVars, stepVars,
                   readVars, portVars, keyVars, postVars>>

\* self._run_git_command(['git', 'fetch', 'origin', 'main'])
FlightFetch(t) ==
    /\ pull_pc[t] = "fetch"
    /\ tracking_main' = origin_main
    /\ FlightGoto(t, "rev_list")
    /\ UNCHANGED <<gm_use_github, now, gm_last_pull_time, origin_main, local_main,
                   cloned_repos, last_contact, pullResult, pull_time>>
    /\ UNCHANGED <<archVars, mergeVars, storeVars, listVars, concVars, stepVars,
                   readVars, portVars, keyVars, postVars>>

\* git rev-list HEAD..origin/main --count; return False when it prints '0'
FlightRevList(t) ==
    /\ pull_pc[t] = "rev_list"
    /\ IF rev_list_count(local_main, tracking_main) = 0
       THEN FlightReturn(t, FALSE)
       ELSE FlightGoto(t, "rebase")
    /\ UNCHANGED <<pullVars, pull_time>>
    /\ UNCHANGED <<archVars, mergeVars, storeVars, listVars, concVars, stepVars,
                   readVars, portVars, keyVars, postVars>>

\* git pull --rebase origin main; self.last_pull_time = current_time;
\* return True
FlightRebase(t) ==
    /\ pull_pc[t] = "rebase"
    /\ tracking_main' = origin_main
    /\ local_main' = origin_main
    /\ gm_last_pull_time' = pull_time[t]
    /\ FlightReturn(t, TRUE)
    /\ UNCHANGED <<gm_use_github, now, origin_main, cloned_repos, last_contact, pullResult,
                   pull_time>>
    /\ UNCHANGED <<archVars, mergeVars, storeVars, listVars, concVars, stepVars,
                   readVars, portVars, keyVars, postVars>>

\* the git command the thread runs exits with an error: except
\* subprocess.CalledProcessError: return False
FlightGitFails(t) ==
    /\ pull_pc[t] \in {"fetch", "rev_list", "rebase"}
    /\ FlightReturn(t, FALSE)
    /\ UNCHANGED <<pullVars, pull_time>>
    /\ UNCHANGED <<archVars, mergeVars, storeVars, listVars, concVars, stepVars,
                   readVars, portVars, keyVars, postVars>>

FlightNext ==
    \/ \E t \in PullThreads :
          \/ FlightEnter(t)
          \/ FlightSyncForks(t, <<OriginUrl, BobUrl>>)
          \/ FlightFetch(t)
          \/ FlightRevList(t)
          \/ FlightRebase(t)
          \/ FlightGitFails(t)
    \/ PullTick
    \/ OriginAdvances

SpecConcurrentPull == FlightInit /\ [][FlightNext]_vars

\* C31: pulls are single-flight per process: when threads call
\* pull_from_github concurrently, at most one of them is working on a remote
\* (fork sync, fetch, rebase) at any time.
C31_PullsAreSingleFlight ==
    Cardinality({t \in PullThreads : pull_pc[t] \in RemoteOperations}) <= 1


(***************************************************************************)
(* The createdAt of GitManager.read_message.  A file name is the sequence  *)
(* of the parts its stem splits into at '_'; a timestamp text is a         *)
(* sequence of tokens.  A file of messages/ is a record of its format, the *)
(* text of its Date footer (of its 'timestamp' key for a JSON object) when *)
(* it has one, and whether a commit holds the file.                        *)
(***************************************************************************)
StampedStem == <<"20250101", "120000", "bob">>
LegacyStem == <<"legacy", "message">>
NotesStem == <<"notes">>
ReadStems == {StampedStem, LegacyStem, NotesStem}

IsoDate == "2025-03-03T03:03:03+00:00"
WordDate == "yesterday"
CommitDate == "2024-05-05T05:05:05+00:00"
DateFields == {NoValue, Some(IsoDate), Some(WordDate)}

\* how the caller names the file: by its bare name or by its path under
\* repo_path
ReadArguments == {"name", "path"}

\* datetime.fromisoformat(date.replace('Z', '+00:00')), None for ValueError
fromisoformat(text) == IF text = IsoDate THEN Some(text) ELSE NoValue

\* parsed_date.astimezone().strftime(...) with the colon put into the offset
rfc3339_local(parsed_date) == <<parsed_date, "as local time">>

\* f"{parts[0][:4]}-{parts[0][4:6]}-{parts[0][6:]}T{parts[1][:2]}:..Z" when
\* the stem has two parts or more, whatever the parts hold
filename_date(stem) ==
    IF Len(stem) >= 2 THEN Some(<<stem[1], stem[2], "Z">>) ELSE NoValue

\* get_commit_timestamp: git log -1 --format=%aI <path>, None when it prints
\* nothing
get_commit_timestamp(file) == IF file.committed THEN Some(<<CommitDate>>) ELSE NoValue

\* filename.relative_to(self.repo_path) raises ValueError for a bare name
commit_date(argument, file) ==
    IF argument = "path" THEN get_commit_timestamp(file) ELSE NoValue

\* the 'createdAt' that process_message computes
created_at(stem, file, argument) ==
    IF file.format = "json"
    THEN IF file.date # NoValue THEN Some(<<file.date[1]>>) ELSE NoValue
    ELSE LET parsed == IF file.date # NoValue THEN fromisoformat(file.date[1]) ELSE NoValue
             from_header == IF parsed # NoValue THEN Some(rfc3339_local(parsed[1])) ELSE NoValue
             from_name == IF from_header # NoValue THEN from_header ELSE filename_date(stem)
             from_commit == IF from_name # NoValue THEN from_name
                            ELSE commit_date(argument, file)
         IN IF from_commit # NoValue THEN from_commit ELSE Some(<<"No timestamp">>)

ReadInit ==
    /\ tree = << >>
    /\ readResult = [call |-> "init"]
    /\ ArchiveIdle
    /\ MergeIdle
    /\ StoreIdle
    /\ ListIdle
    /\ ConcIdle
    /\ PullIdle
    /\ StepIdle
    /\ FlightIdle
    /\ PortIdle
    /\ KeyIdle
    /\ PostIdle

\* a file comes into messages/, written by a save or by hand
WriteReadFile(stem, format, date) ==
    /\ tree' = Put(tree, stem, [format |-> format, date |-> date, committed |-> FALSE])
    /\ UNCHANGED readResult
    /\ UNCHANGED <<archVars, mergeVars, storeVars, listVars, concVars, pullVars, stepVars,
                   flightVars, portVars, keyVars, postVars>>

\* git add and git commit of the file
CommitReadFile(stem) ==
    /\ stem \in DOMAIN tree
    /\ tree' = [tree EXCEPT ![stem].committed = TRUE]
    /\ UNCHANGED readResult
    /\ UNCHANGED <<archVars, mergeVars, storeVars, listVars, concVars, pullVars, stepVars,
                   flightVars, portVars, keyVars, postVars>>

\* GitManager.read_message(filename, skip_pull=True)
ReadMessage(stem, argument) ==
    /\ stem \in DOMAIN tree
    /\ readResult' = [call |-> "read", stem |-> stem, argument |-> argument,
                      file |-> tree[stem],
                      createdAt |-> created_at(stem, tree[stem], argument)]
    /\ UNCHANGED tree
    /\ UNCHANGED <<archVars, mergeVars, storeVars, listVars, concVars, pullVars, stepVars,
                   flightVars, portVars, keyVars, postVars>>

ReadNext ==
    \/ \E stem \in ReadStems, format \in {"footers", "json"}, date \in DateFields :
          WriteReadFile(stem, format, date)
    \/ \E stem \in ReadStems : CommitReadFile(stem)
    \/ \E stem \in ReadStems, argument \in ReadArguments : ReadMessage(stem, argument)

SpecRead == ReadInit /\ [][ReadNext]_vars

\* the stem starts with the digits of a date and of a time of day
NameIsTimestamp(stem) ==
    IF Len(stem) >= 2 THEN stem[1] = "20250101" /\ stem[2] = "120000" ELSE FALSE

\* the metadata date of the file parses as a timestamp
DateParses(file) ==
    IF file.date # NoValue THEN fromisoformat(file.date[1]) # NoValue ELSE FALSE

\* C33: createdAt comes from the first available source in the order
\* metadata Date, timestamp in the file name, commit timestamp of the file,
\* "No timestamp"; a later source is used exactly when every earlier one is
\* absent or cannot be parsed as a timestamp.
C33_CreatedAtPriority ==
    readResult.call = "read"
        => LET file == readResult.file
               stem == readResult.stem
               createdAt == readResult.createdAt
           IN IF DateParses(file)
              THEN createdAt \in {Some(<<file.date[1]>>), Some(rfc3339_local(file.date[1]))}
              ELSE IF NameIsTimestamp(stem)
              THEN createdAt = Some(<<stem[1], stem[2], "Z">>)
              ELSE IF file.committed
              THEN createdAt = Some(<<CommitDate>>)
              ELSE createdAt = Some(<<"No timestamp">>)

\* ---------------------------------------------------------------------
\* find_available_port (src/server/utils.py)
\* ---------------------------------------------------------------------

\* the highest port number bind() accepts; a higher or a negative number makes
\* bind() raise OverflowError, which is not an OSError
LastPort == 65535

\* the default start_port, and start ports next to the highest port
StartPorts == {8000, LastPort - 1, LastPort}

\* the largest max_attempts of a call
MaxAttempts == 3

\* the ports other sockets of the host can hold
HostPorts == UNION {p .. p + 1 : p \in StartPorts} \cap (1 .. LastPort)

PortIs(port, attempts) == [returned |-> Some(port), raised |-> "none", attempts |-> attempts]

PortRaises(error, attempts) == [returned |-> NoValue, raised |-> error, attempts |-> attempts]

\* the loop of find_available_port from `port` on: range(...) is exhausted at stop; bind()
\* rejects a number outside 0 .. LastPort with OverflowError, which `except OSError` lets
\* through; a port another socket holds raises OSError and the loop goes on
RECURSIVE find_port_from(_, _, _, _)
find_port_from(port, stop, busy, attempts) ==
    IF port >= stop
    THEN PortRaises("RuntimeError", attempts)
    ELSE IF port < 0 \/ port > LastPort
    THEN PortRaises("OverflowError", attempts + 1)
    ELSE IF port \notin busy
    THEN PortIs(port, attempts + 1)
    ELSE find_port_from(port + 1, stop, busy, attempts + 1)

find_available_port(start_port, max_attempts, busy) ==
    find_port_from(start_port, start_port + max_attempts, busy, 0)

PortInit ==
    /\ bound_ports = {}
    /\ portResult = [call |-> "init"]
    /\ ArchiveIdle
    /\ MergeIdle
    /\ StoreIdle
    /\ ListIdle
    /\ ConcIdle
    /\ PullIdle
    /\ StepIdle
    /\ FlightIdle
    /\ ReadIdle
    /\ KeyIdle
    /\ PostIdle

\* another socket of the host binds a port
OtherBinds(port) ==
    /\ port \notin bound_ports
    /\ bound_ports' = bound_ports \cup {port}
    /\ UNCHANGED portResult
    /\ UNCHANGED <<archVars, mergeVars, storeVars, listVars, concVars, pullVars, stepVars,
                   flightVars, readVars, keyVars, postVars>>

\* another socket of the host is closed
OtherCloses(port) ==
    /\ port \in bound_ports
    /\ bound_ports' = bound_ports \ {port}
    /\ UNCHANGED portResult
    /\ UNCHANGED <<archVars, mergeVars, storeVars, listVars, concVars, pullVars, stepVars,
                   flightVars, readVars, keyVars, postVars>>

\* one call of find_available_port; its socket is closed when the with block is left
FindAvailablePort(start_port, max_attempts) ==
    /\ portResult' = [call |-> "find_available_port", start_port |-> start_port,
                      max_attempts |-> max_attempts, busy |-> bound_ports,
                      outcome |-> find_available_port(start_port, max_attempts, bound_ports)]
    /\ UNCHANGED bound_ports
    /\ UNCHANGED <<archVars, mergeVars, storeVars, listVars, concVars, pullVars, stepVars,
                   flightVars, readVars, keyVars, postVars>>

PortNext ==
    \/ \E port \in HostPorts : OtherBinds(port)
    \/ \E port \in HostPorts : OtherCloses(port)
    \/ \E start_port \in StartPorts, max_attempts \in 0 .. MaxAttempts :
           FindAvailablePort(start_port, max_attempts)

SpecPort == PortInit /\ [][PortNext]_vars

\* the ports of the range of a call that could be bound when it was made
BindablePorts ==
    {port \in portResult.start_port .. portResult.start_port + portResult.max_attempts - 1 :
         port \in 0 .. LastPort /\ port \notin portResult.busy}

\* C34: find_available_port makes at most max_attempts bind attempts and returns the lowest
\* port of [start_port, start_port + max_attempts) that can be bound; when none of them can
\* be bound it raises RuntimeError and returns no port
C34_LowestFreePortOrRuntimeError ==
    portResult.call = "find_available_port" =>
        /\ portResult.outcome.attempts <= portResult.max_attempts
        /\ IF BindablePorts # {}
           THEN /\ portResult.outcome.raised = "none"
                /\ portResult.outcome.returned
                       = Some(CHOOSE port \in BindablePorts :
                                  \A other \in BindablePorts : port <= other)
           ELSE /\ portResult.outcome.returned = NoValue
                /\ portResult.outcome.raised = "RuntimeError"

(***************************************************************************)
(* GitManager.handle_username_change called by several request threads of  *)
(* one process (ThreadingHTTPServer), taken statement by statement: the    *)
(* two writes of generate_keypair, then the two exists()/unlink() pairs.   *)
(* The method takes no lock.  Only the existence of the key files is kept. *)
(***************************************************************************)
RenameThreads == {"R1", "R2"}

\* the user names that have a key pair when the requests arrive
KeyedAtStart == SUBSET {"alice", "bob"}

KeyInit ==
    /\ \E keyed \in KeyedAtStart :
          /\ key_private = keyed
          /\ key_public = keyed \cup {"anonymous"}
    /\ ren_pc = [t \in RenameThreads |-> "idle"]
    /\ ren_old = [t \in RenameThreads |-> "anonymous"]
    /\ ren_new = [t \in RenameThreads |-> "anonymous"]
    /\ ren_returned = [t \in RenameThreads |-> NoValue]
    /\ ArchiveIdle
    /\ MergeIdle
    /\ StoreIdle
    /\ ListIdle
    /\ ConcIdle
    /\ PullIdle
    /\ StepIdle
    /\ FlightIdle
    /\ ReadIdle
    /\ PortIdle
    /\ PostIdle

KeyGoto(t, statement) ==
    /\ ren_pc' = [ren_pc EXCEPT ![t] = statement]
    /\ UNCHANGED <<ren_old, ren_new>>

KeyReturn(t, success) ==
    /\ ren_pc' = [ren_pc EXCEPT ![t] = "returned"]
    /\ ren_returned' = [ren_returned EXCEPT ![t] = Some(success)]
    /\ UNCHANGED <<ren_old, ren_new>>

\* the call arrives; USERNAME_REGEX.match(new_username) and mkdir(exist_ok=True)
KeyEnter(t, old_username, new_username) ==
    /\ ren_pc[t] = "idle"
    /\ ren_old' = [ren_old EXCEPT ![t] = old_username]
    /\ ren_new' = [ren_new EXCEPT ![t] = new_username]
    /\ IF USERNAME_REGEX_match(new_username)
       THEN /\ ren_pc' = [ren_pc EXCEPT ![t] = "write_private"]
            /\ UNCHANGED ren_returned
       ELSE /\ ren_pc' = [ren_pc EXCEPT ![t] = "returned"]
            /\ ren_returned' = [ren_returned EXCEPT ![t] = Some(FALSE)]
    /\ UNCHANGED <<key_private, key_public>>
    /\ UNCHANGED <<archVars, mergeVars, storeVars, listVars, concVars, pullVars, stepVars,
                   flightVars, readVars, portVars, postVars>>

\* generate_keypair: private_key_path.write_bytes(private_pem)
KeyWritePrivate(t) ==
    /\ ren_pc[t] = "write_private"
    /\ key_private' = key_private \cup {ren_new[t]}
    /\ KeyGoto(t, "write_public")
    /\ UNCHANGED <<key_public, ren_returned>>
    /\ UNCHANGED <<archVars, mergeVars, storeVars, listVars, concVars, pullVars, stepVars,
                   flightVars, readVars, portVars, postVars>>

\* generate_keypair: public_key_path.write_bytes(public_pem)
KeyWritePublic(t) ==
    /\ ren_pc[t] = "write_public"
    /\ key_public' = key_public \cup {ren_new[t]}
    /\ KeyGoto(t, "old_public_exists")
    /\ UNCHANGED <<key_private, ren_returned>>
    /\ UNCHANGED <<archVars, mergeVars, storeVars, listVars, concVars, pullVars, stepVars,
                   flightVars, readVars, portVars, postVars>>

\* if old_key_path.exists(): ... else return True, "Username changed successfully"
KeyOldPublicExists(t) ==
    /\ ren_pc[t] = "old_public_exists"
    /\ IF ren_old[t] \in key_public
       THEN KeyGoto(t, "unlink_public") /\ UNCHANGED ren_returned
       ELSE KeyReturn(t, TRUE)
    /\ UNCHANGED <<key_private, key_public>>
    /\ UNCHANGED <<archVars, mergeVars, storeVars, listVars, concVars, pullVars, stepVars,
                   flightVars, readVars, portVars, postVars>>

\* old_key_path.unlink(): FileNotFoundError, an OSError, when the file has gone
KeyUnlinkPublic(t) ==
    /\ ren_pc[t] = "unlink_public"
    /\ IF ren_old[t] \in key_public
       THEN /\ key_public' = key_public \ {ren_old[t]}
            /\ KeyGoto(t, "old_private_exists")
            /\ UNCHANGED ren_returned
       ELSE /\ KeyReturn(t, FALSE)
            /\ UNCHANGED key_public
    /\ UNCHANGED key_private
    /\ UNCHANGED <<archVars, mergeVars, storeVars, listVars, concVars, pullVars, stepVars,
                   flightVars, readVars, portVars, postVars>>

\* if old_private_key.exists(): ... else return True
KeyOldPrivateExists(t) ==
    /\ ren_pc[t] = "old_private_exists"
    /\ IF ren_old[t] \in key_private
       THEN KeyGoto(t, "unlink_private") /\ UNCHANGED ren_returned
       ELSE KeyReturn(t, TRUE)
    /\ UNCHANGED <<key_private, key_public>>
    /\ UNCHANGED <<archVars, mergeVars, storeVars, listVars, concVars, pullVars, stepVars,
                   flightVars, readVars, portVars, postVars>>

\* old_private_key.unlink(); return True
KeyUnlinkPrivate(t) ==
    /\ ren_pc[t] = "unlink_private"
    /\ IF ren_old[t] \in key_private
       THEN /\ key_private' = key_private \ {ren_old[t]}
            /\ KeyReturn(t, TRUE)
       ELSE /\ KeyReturn(t, FALSE)
            /\ UNCHANGED key_private
    /\ UNCHANGED key_public
    /\ UNCHANGED <<archVars, mergeVars, storeVars, listVars, concVars, pullVars, stepVars,
                   flightVars, readVars, portVars, postVars>>

KeyNext ==
    \/ \E t \in RenameThreads, old_username, new_username \in Usernames \cup {ShortName} :
           KeyEnter(t, old_username, new_username)
    \/ \E t \in RenameThreads : KeyWritePrivate(t)
    \/ \E t \in RenameThreads : KeyWritePublic(t)
    \/ \E t \in RenameThreads : KeyOldPublicExists(t)
    \/ \E t \in RenameThreads : KeyUnlinkPublic(t)
    \/ \E t \in RenameThreads : KeyOldPrivateExists(t)
    \/ \E t \in RenameThreads : KeyUnlinkPrivate(t)

SpecConcurrentRename == KeyInit /\ [][KeyNext]_vars

\* C39: when concurrent rename requests, with overlapping old and new names,
\* have all completed, every user name but the built-in anonymous has both its
\* public and its private key file or neither of them.
C39_KeyFilesComeInPairs ==
    (\A t \in RenameThreads : ren_pc[t] = "returned")
        => \A username \in (key_public \cup key_private) \ {"anonymous"} :
               username \in key_public /\ username \in key_private

(***************************************************************************)
(* handle_message_post of server.py, run by one thread per request         *)
(* (ThreadingHTTPServer) on the module's one storage, with the background   *)
(* thread git_ops each successful request starts.  A file of messages/ is  *)
(* the record of the request that wrote it last.                            *)
(***************************************************************************)
PostRequests == {"P1", "P2"}
PostAuthors == {"alice", "bob"}
PostContents == {"first", "second"}

\* create_storage('git') gives GitStorage the KeyManager of key_manager.py, which
\* has no method has_key_pair; the handler is written for a key manager that has it
KeyManagers == {"KeyManager", "has_key_pair"}

\* storage.key_manager.has_key_pair(author): AttributeError with the repository's
\* KeyManager; otherwise whether the author has a key pair, which no author of
\* these requests has
has_key_pair(key_manager, author) ==
    IF key_manager = "KeyManager" THEN [raised |-> TRUE, value |-> FALSE]
    ELSE [raised |-> FALSE, value |-> FALSE]

\* <timestamp>_<user>.txt: the requests arrive within one second
PostFileName(author) == MessageFileName(0, author)

\* open(message_path, 'w'): the file becomes the newest of messages/
RECURSIVE WithoutFile(_, _)
WithoutFile(files, name) ==
    IF files = << >> THEN << >>
    ELSE IF Head(files).name = name THEN WithoutFile(Tail(files), name)
    ELSE <<Head(files)>> \o WithoutFile(Tail(files), name)

WritePostFile(files, file) == WithoutFile(files, file.name) \o <<file>>

\* max(storage.messages_dir.glob('*.txt'), key=os.path.getctime), and
\* storage.get_messages(limit=1)[0]: the file written last
LatestFile(files) == files[Len(files)]

PostInit ==
    /\ post_key_manager \in KeyManagers
    /\ post_files = << >>
    /\ post_pc = [r \in PostRequests |-> "idle"]
    /\ git_ops_pc = [r \in PostRequests |-> "none"]
    /\ post_request = [r \in PostRequests |-> [author |-> "alice", content |-> "first"]]
    /\ post_saved = [r \in PostRequests |-> NoValue]
    /\ latest_message = [r \in PostRequests |-> NoValue]
    /\ new_message = [r \in PostRequests |-> NoValue]
    /\ ArchiveIdle
    /\ MergeIdle
    /\ StoreIdle
    /\ ListIdle
    /\ ConcIdle
    /\ PullIdle
    /\ StepIdle
    /\ FlightIdle
    /\ ReadIdle
    /\ PortIdle
    /\ KeyIdle

\* the request arrives: body, cookie, has_key_pair(author); an exception ends the
\* request in handle_error
PostArrives(r, author, content) ==
    /\ post_pc[r] = "idle"
    /\ post_request' = [post_request EXCEPT ![r] = [author |-> author, content |-> content]]
    /\ post_pc' = [post_pc EXCEPT ![r] =
                      IF has_key_pair(post_key_manager, author).raised
                      THEN "error" ELSE "save_message"]
    /\ UNCHANGED <<post_key_manager, post_files, git_ops_pc, post_saved, latest_message,
                   new_message>>
    /\ UNCHANGED <<archVars, mergeVars, storeVars, listVars, concVars, pullVars, stepVars,
                   flightVars, readVars, portVars, keyVars>>

\* success = storage.save_message(author, content, datetime.now(), sign=has_key):
\* on success the thread git_ops is started
PostSaveMessage(r) ==
    /\ post_pc[r] = "save_message"
    /\ LET file == [name |-> PostFileName(post_request[r].author),
                    author |-> post_request[r].author,
                    content |-> post_request[r].content, request |-> r]
       IN /\ post_files' = WritePostFile(post_files, file)
          /\ post_saved' = [post_saved EXCEPT ![r] = Some(file)]
    /\ git_ops_pc' = [git_ops_pc EXCEPT ![r] = "started"]
    /\ post_pc' = [post_pc EXCEPT ![r] = "get_messages"]
    /\ UNCHANGED <<post_key_manager, post_request, latest_message, new_message>>
    /\ UNCHANGED <<archVars, mergeVars, storeVars, listVars, concVars, pullVars, stepVars,
                   flightVars, readVars, portVars, keyVars>>

\* save_message returns False (git add or git commit failed): no git_ops, the
\* response is the error 500; the message file stays
PostSaveFails(r) ==
    /\ post_pc[r] = "save_message"
    /\ post_files' = WritePostFile(post_files,
                         [name |-> PostFileName(post_request[r].author),
                          author |-> post_request[r].author,
                          content |-> post_request[r].content, request |-> r])
    /\ post_pc' = [post_pc EXCEPT ![r] = "error"]
    /\ UNCHANGED <<post_key_manager, git_ops_pc, post_request, post_saved, latest_message,
                   new_message>>
    /\ UNCHANGED <<archVars, mergeVars, storeVars, listVars, concVars, pullVars, stepVars,
                   flightVars, readVars, portVars, keyVars>>

\* git_ops: latest_message = max(glob('*.txt'), key=getctime);
\* add_and_commit_file(str(latest_message), f"Add message from {author}"); push()
GitOps(r) ==
    /\ git_ops_pc[r] = "started"
    /\ latest_message' = [latest_message EXCEPT ![r] = Some(LatestFile(post_files))]
    /\ git_ops_pc' = [git_ops_pc EXCEPT ![r] = "finished"]
    /\ UNCHANGED <<post_key_manager, post_files, post_pc, post_request, post_saved,
                   new_message>>
    /\ UNCHANGED <<archVars, mergeVars, storeVars, listVars, concVars, pullVars, stepVars,
                   flightVars, readVars, portVars, keyVars>>

\* messages = storage.get_messages(limit=1); new_message = messages[0]; 200 with it
PostResponds(r) ==
    /\ post_pc[r] = "get_messages"
    /\ new_message' = [new_message EXCEPT ![r] = Some(LatestFile(post_files))]
    /\ post_pc' = [post_pc EXCEPT ![r] = "responded"]
    /\ UNCHANGED <<post_key_manager, post_files, git_ops_pc, post_request, post_saved,
                   latest_message>>
    /\ UNCHANGED <<archVars, mergeVars, storeVars, listVars, concVars, pullVars, stepVars,
                   flightVars, readVars, portVars, keyVars>>

PostNext ==
    \/ \E r \in PostRequests, author \in PostAuthors, content \in PostContents :
           PostArrives(r, author, content)
    \/ \E r \in PostRequests : PostSaveMessage(r)
    \/ \E r \in PostRequests : PostSaveFails(r)
    \/ \E r \in PostRequests : GitOps(r)
    \/ \E r \in PostRequests : PostResponds(r)

SpecConcurrentPost == PostInit /\ [][PostNext]_vars

====
